---- MODULE Spec2Model ----
(***************************************************************************)
(* Academic directory tracker: the SQLite persistence layer                *)
(* (DatabaseManager), the website tester (WebsiteTester), the job scrapers *)
(* (UniversityJobScraper, LinkedInScraper) and the full scan               *)
(* (EnhancedAcademicTracker) of src/enhanced_academic_tracker.py.          *)
(*                                                                         *)
(* A table is a sequence of rows in rowid order: AUTOINCREMENT ids only    *)
(* grow, so a row that INSERT OR REPLACE re-inserts moves to the end.      *)
(* A text is a string; Chars gives its characters, on which lower(),       *)
(* strip() and the substring tests of the code are computed.               *)
(***************************************************************************)
EXTENDS Integers, Sequences, FiniteSets, TLC

VARIABLES
    job_opportunities,   \* table job_opportunities, rows in rowid order
    website_monitoring,  \* table website_monitoring, rows in rowid order
    lastCall,            \* the most recent persistence call and the rows it deleted
    latestPosting,       \* history: url -> <<the last posting a save_opportunities call stored for it>>
    latestTest,          \* history: url -> <<the argument of the last save_website_test call for it>>
    fetched,             \* the outcome of the GET the operation under test has issued
    result,              \* what the operation under test returned
    web,                 \* the world: url -> what a GET of it answers
    linkedin,            \* the world: the Chrome driver and what the LinkedIn searches show
    today,               \* the current date, in days
    pc,                  \* run_full_scan: the step the scan is at
    site,                \* run_full_scan: index of the university the current loop is at
    job_pages,           \* scrape_university_jobs: pages of the current university still to scrape
    all_opportunities,   \* scrape_university_jobs: the opportunities collected so far
    scanLog,             \* history: the row counts at the end of each completed scan
    backup_dir,          \* the files of data/backups
    performance_logs     \* table performance_logs, rows in rowid order

storeVars == <<job_opportunities, website_monitoring, lastCall, latestPosting, latestTest>>

callVars == <<fetched, result>>

worldVars == <<web, linkedin, today>>

scanVars == <<pc, site, job_pages, all_opportunities, scanLog>>

runnerVars == <<backup_dir, performance_logs>>

vars == <<job_opportunities, website_monitoring, lastCall, latestPosting, latestTest,
          fetched, result, web, linkedin, today, pc, site, job_pages,
          all_opportunities, scanLog, backup_dir, performance_logs>>

\* SQL NULL / Python None.  Nullable column values are strings (a status
\* code is "200", a response time "0.25") so that the column can hold NULL.
NULL == "NULL"

----------------------------------------------------------------------------
(* Bounds *)

\* longest batch handed to save_opportunities by a direct caller
MaxBatch == 2
\* most rows of job_opportunities that carry a NULL url
MaxNullRows == 2
\* most anchors of a page handed to find_job_pages
MaxAnchors == 6
\* most full scans of a behaviour
MaxScans == 2
\* last day of a behaviour
MaxDay == 1
\* most elements of a page handed to the scrapers
MaxElements == 3
\* last day of a behaviour that is followed over months
MaxReportDay == 62
\* most anchors of a PSI listing page
MaxPsiAnchors == 11
\* most institutions with postings in the store the breakdown is made of
MaxInstitutions == 11
\* most postings of that store beyond the first of each institution
MaxExtraRows == 3
\* last day of a behaviour in which the report is asked for again and again
MaxSummaryDay == 31
\* most postings a scan of the update cycle finds
MaxFound == 2
\* last day of a behaviour in which the health of the system is checked
MaxHealthDay == 8
\* most backups that are made
MaxBackups == 12
\* most operations that are run with monitoring
MaxLogs == 3
\* most anchors of a PSI listing page that are not PhD listings, of each kind
MaxOtherAnchors == 1

----------------------------------------------------------------------------
(* Sequence helpers *)

RECURSIVE SelectRows(_, _)
\* the rows r of table with keep[r], in order
SelectRows(table, keep) ==
    IF table = <<>> THEN <<>>
    ELSE IF keep[Head(table)] THEN <<Head(table)>> \o SelectRows(Tail(table), keep)
         ELSE SelectRows(Tail(table), keep)

Range(s) == {s[i] : i \in 1..Len(s)}

SeqsUpTo(S, n) == UNION {[1..k -> S] : k \in 0..n}

\* s[:n]
Prefix(s, n) == SubSeq(s, 1, IF Len(s) < n THEN Len(s) ELSE n)

----------------------------------------------------------------------------
(* Text: the characters of the strings of the model, str.lower(),          *)
(* str.strip() and the `in` / re.search substring tests                    *)

Chars ==
    ("job" :> <<"j", "o", "b">>) @@
    ("career" :> <<"c", "a", "r", "e", "e", "r">>) @@
    ("position" :> <<"p", "o", "s", "i", "t", "i", "o", "n">>) @@
    ("opening" :> <<"o", "p", "e", "n", "i", "n", "g">>) @@
    ("vacancy" :> <<"v", "a", "c", "a", "n", "c", "y">>) @@
    ("phd" :> <<"p", "h", "d">>) @@
    ("postdoc" :> <<"p", "o", "s", "t", "d", "o", "c">>) @@
    ("graduate" :> <<"g", "r", "a", "d", "u", "a", "t", "e">>) @@
    ("student" :> <<"s", "t", "u", "d", "e", "n", "t">>) @@
    ("doctorate" :> <<"d", "o", "c", "t", "o", "r", "a", "t", "e">>) @@
    ("doctoral" :> <<"d", "o", "c", "t", "o", "r", "a", "l">>) @@
    ("graduate student" :> <<"g", "r", "a", "d", "u", "a", "t", "e", " ", "s", "t", "u", "d", "e", "n", "t">>) @@
    ("research assistant" :> <<"r", "e", "s", "e", "a", "r", "c", "h", " ", "a", "s", "s", "i", "s", "t", "a", "n", "t">>) @@
    ("experience" :> <<"e", "x", "p", "e", "r", "i", "e", "n", "c", "e">>) @@
    ("" :> <<>>) @@
    ("Open Jobs" :> <<"O", "p", "e", "n", " ", "J", "o", "b", "s">>) @@
    ("PhD" :> <<"P", "h", "D">>) @@
    ("CAREERS" :> <<"C", "A", "R", "E", "E", "R", "S">>) @@
    ("Graduate Student" :> <<"G", "r", "a", "d", "u", "a", "t", "e", " ", "S", "t", "u", "d", "e", "n", "t">>) @@
    ("About Us" :> <<"A", "b", "o", "u", "t", " ", "U", "s">>) @@
    ("Jo" :> <<"J", "o">>) @@
    ("b" :> <<"b">>) @@
    (" PhD Student Position " :> <<" ", "P", "h", "D", " ", "S", "t", "u", "d", "e", "n", "t", " ", "P", "o", "s", "i", "t", "i", "o", "n", " ">>) @@
    ("PhD Student Position" :> <<"P", "h", "D", " ", "S", "t", "u", "d", "e", "n", "t", " ", "P", "o", "s", "i", "t", "i", "o", "n">>) @@
    ("Research Assistant" :> <<"R", "e", "s", "e", "a", "r", "c", "h", " ", "A", "s", "s", "i", "s", "t", "a", "n", "t">>) @@
    ("Technician" :> <<"T", "e", "c", "h", "n", "i", "c", "i", "a", "n">>) @@
    ("We want experience" :> <<"W", "e", " ", "w", "a", "n", "t", " ", "e", "x", "p", "e", "r", "i", "e", "n", "c", "e">>) @@
    ("STUDENT intern" :> <<"S", "T", "U", "D", "E", "N", "T", " ", "i", "n", "t", "e", "r", "n">>) @@
    ("Doctorate and experience" :> <<"D", "o", "c", "t", "o", "r", "a", "t", "e", " ", "a", "n", "d", " ", "e", "x", "p", "e", "r", "i", "e", "n", "c", "e">>) @@
    ("/p1" :> <<"/", "p", "1">>) @@
    ("/p2" :> <<"/", "p", "2">>) @@
    ("/p3" :> <<"/", "p", "3">>) @@
    ("/p4" :> <<"/", "p", "4">>) @@
    ("/p5" :> <<"/", "p", "5">>) @@
    ("/p6" :> <<"/", "p", "6">>) @@
    ("/p7" :> <<"/", "p", "7">>) @@
    ("/p8" :> <<"/", "p", "8">>) @@
    ("/en/hr/job-opportunities" :> <<"/", "e", "n", "/", "h", "r", "/", "j", "o", "b", "-", "o", "p", "p", "o", "r", "t", "u", "n", "i", "t", "i", "e", "s">>) @@
    ("/job-opportunities/101" :> <<"/", "j", "o", "b", "-", "o", "p", "p", "o", "r", "t", "u", "n", "i", "t", "i", "e", "s", "/", "1", "0", "1">>) @@
    ("/job-opportunities/102" :> <<"/", "j", "o", "b", "-", "o", "p", "p", "o", "r", "t", "u", "n", "i", "t", "i", "e", "s", "/", "1", "0", "2">>) @@
    ("/job-opportunities/new" :> <<"/", "j", "o", "b", "-", "o", "p", "p", "o", "r", "t", "u", "n", "i", "t", "i", "e", "s", "/", "n", "e", "w">>) @@
    ("/jobs/42" :> <<"/", "j", "o", "b", "s", "/", "4", "2">>) @@
    ("/job-opportunities/" :> <<"/", "j", "o", "b", "-", "o", "p", "p", "o", "r", "t", "u", "n", "i", "t", "i", "e", "s", "/">>) @@
    ("http://[" :> <<"h", "t", "t", "p", ":", "/", "/", "[">>)

UpperCase == <<"A", "B", "C", "D", "E", "F", "G", "H", "I", "J", "K", "L", "M",
               "N", "O", "P", "Q", "R", "S", "T", "U", "V", "W", "X", "Y", "Z">>

LowerCase == <<"a", "b", "c", "d", "e", "f", "g", "h", "i", "j", "k", "l", "m",
               "n", "o", "p", "q", "r", "s", "t", "u", "v", "w", "x", "y", "z">>

LowerChar(c) ==
    IF \E i \in 1..26 : UpperCase[i] = c
    THEN LowerCase[CHOOSE i \in 1..26 : UpperCase[i] = c]
    ELSE c

\* text.lower(), on characters
lower(chars) == [i \in 1..Len(chars) |-> LowerChar(chars[i])]

RECURSIVE StripLeft(_)
StripLeft(chars) ==
    IF chars # <<>> /\ Head(chars) = " " THEN StripLeft(Tail(chars)) ELSE chars

RECURSIVE StripRight(_)
StripRight(chars) ==
    IF chars # <<>> /\ chars[Len(chars)] = " "
    THEN StripRight(SubSeq(chars, 1, Len(chars) - 1))
    ELSE chars

\* the string with the given characters
Text(chars) == CHOOSE s \in DOMAIN Chars : Chars[s] = chars

\* text.strip()
strip(text) == Text(StripRight(StripLeft(Chars[text])))

\* keyword in chars
Contains(chars, keyword) ==
    \E i \in 0..(Len(chars) - Len(keyword)) :
        SubSeq(chars, i + 1, i + Len(keyword)) = keyword

\* any(keyword in chars for keyword in keywords)
AnyIn(keywords, chars) ==
    \E k \in 1..Len(keywords) : Contains(chars, Chars[keywords[k]])

----------------------------------------------------------------------------
(* urllib.parse.urljoin on the urls and hrefs of the model *)

\* hrefs that are absolute paths on a page of links
Paths == <<"/p1", "/p2", "/p3", "/p4", "/p5", "/p6", "/p7", "/p8">>

\* every href of the model that is an absolute path
AbsolutePaths ==
    {"/",
     "/p1",
     "/p2",
     "/p3",
     "/p4",
     "/p5",
     "/p6",
     "/p7",
     "/p8",
     "/en/hr/job-opportunities",
     "/job-opportunities/101",
     "/job-opportunities/102",
     "/job-opportunities/new",
     "/jobs/42"}

\* the urls of the model: url -> <<scheme and host, path>>
UrlParts ==
    ("https://www.psi.ch/" :> <<"https://www.psi.ch", "/">>) @@
    ("https://www.psi.ch/p1" :> <<"https://www.psi.ch", "/p1">>) @@
    ("https://www.psi.ch/p2" :> <<"https://www.psi.ch", "/p2">>) @@
    ("https://www.psi.ch/p3" :> <<"https://www.psi.ch", "/p3">>) @@
    ("https://www.psi.ch/p4" :> <<"https://www.psi.ch", "/p4">>) @@
    ("https://www.psi.ch/p5" :> <<"https://www.psi.ch", "/p5">>) @@
    ("https://www.psi.ch/p6" :> <<"https://www.psi.ch", "/p6">>) @@
    ("https://www.psi.ch/p7" :> <<"https://www.psi.ch", "/p7">>) @@
    ("https://www.psi.ch/p8" :> <<"https://www.psi.ch", "/p8">>) @@
    ("https://www.psi.ch/en/hr/job-opportunities" :> <<"https://www.psi.ch", "/en/hr/job-opportunities">>) @@
    ("https://www.psi.ch/job-opportunities/101" :> <<"https://www.psi.ch", "/job-opportunities/101">>) @@
    ("https://www.psi.ch/job-opportunities/102" :> <<"https://www.psi.ch", "/job-opportunities/102">>) @@
    ("https://www.psi.ch/job-opportunities/new" :> <<"https://www.psi.ch", "/job-opportunities/new">>) @@
    ("https://www.psi.ch/jobs/42" :> <<"https://www.psi.ch", "/jobs/42">>) @@
    ("https://jobs.ethz.ch/" :> <<"https://jobs.ethz.ch", "/">>) @@
    ("https://jobs.ethz.ch/p1" :> <<"https://jobs.ethz.ch", "/p1">>) @@
    ("https://jobs.ethz.ch/p2" :> <<"https://jobs.ethz.ch", "/p2">>) @@
    ("https://jobs.ethz.ch/p3" :> <<"https://jobs.ethz.ch", "/p3">>) @@
    ("https://jobs.ethz.ch/p4" :> <<"https://jobs.ethz.ch", "/p4">>) @@
    ("https://jobs.ethz.ch/p5" :> <<"https://jobs.ethz.ch", "/p5">>) @@
    ("https://jobs.ethz.ch/p6" :> <<"https://jobs.ethz.ch", "/p6">>) @@
    ("https://jobs.ethz.ch/p7" :> <<"https://jobs.ethz.ch", "/p7">>) @@
    ("https://jobs.ethz.ch/p8" :> <<"https://jobs.ethz.ch", "/p8">>) @@
    ("https://jobs.ethz.ch/en/hr/job-opportunities" :> <<"https://jobs.ethz.ch", "/en/hr/job-opportunities">>) @@
    ("https://jobs.ethz.ch/job-opportunities/101" :> <<"https://jobs.ethz.ch", "/job-opportunities/101">>) @@
    ("https://jobs.ethz.ch/job-opportunities/102" :> <<"https://jobs.ethz.ch", "/job-opportunities/102">>) @@
    ("https://jobs.ethz.ch/job-opportunities/new" :> <<"https://jobs.ethz.ch", "/job-opportunities/new">>) @@
    ("https://jobs.ethz.ch/jobs/42" :> <<"https://jobs.ethz.ch", "/jobs/42">>) @@
    ("https://careers.cern/" :> <<"https://careers.cern", "/">>) @@
    ("https://careers.cern/p1" :> <<"https://careers.cern", "/p1">>) @@
    ("https://careers.cern/p2" :> <<"https://careers.cern", "/p2">>) @@
    ("https://careers.cern/p3" :> <<"https://careers.cern", "/p3">>) @@
    ("https://careers.cern/p4" :> <<"https://careers.cern", "/p4">>) @@
    ("https://careers.cern/p5" :> <<"https://careers.cern", "/p5">>) @@
    ("https://careers.cern/p6" :> <<"https://careers.cern", "/p6">>) @@
    ("https://careers.cern/p7" :> <<"https://careers.cern", "/p7">>) @@
    ("https://careers.cern/p8" :> <<"https://careers.cern", "/p8">>) @@
    ("https://careers.cern/en/hr/job-opportunities" :> <<"https://careers.cern", "/en/hr/job-opportunities">>) @@
    ("https://careers.cern/job-opportunities/101" :> <<"https://careers.cern", "/job-opportunities/101">>) @@
    ("https://careers.cern/job-opportunities/102" :> <<"https://careers.cern", "/job-opportunities/102">>) @@
    ("https://careers.cern/job-opportunities/new" :> <<"https://careers.cern", "/job-opportunities/new">>) @@
    ("https://careers.cern/jobs/42" :> <<"https://careers.cern", "/jobs/42">>)

\* an href urlparse rejects (ValueError: Invalid IPv6 URL)
BadHref == "http://["

UrljoinRaises(base, href) == href = BadHref

\* an empty href gives the base, an absolute path replaces the path of the
\* base, an absolute url replaces the base
urljoin(base, href) ==
    IF href = "" THEN base
    ELSE IF href \in AbsolutePaths
         THEN CHOOSE u \in DOMAIN UrlParts : UrlParts[u] = <<UrlParts[base][1], href>>
         ELSE href

----------------------------------------------------------------------------
(* Pages and GET *)

\* What session.get(url) can do: raise (raised = TRUE), or return a response
\* with a status code and a body; the body is the html page, which
\* BeautifulSoup parses (parses = FALSE: parsing or get_text raises).  A page
\* is its text outside the anchors and its anchors in document order; an
\* anchor without href attribute has href = NULL.
Failure == [raised |-> TRUE, status_code |-> NULL, elapsed |-> NULL,
            parses |-> FALSE, text |-> "", anchors |-> <<>>, hangs |-> FALSE]

\* the server accepts the connection and never answers: a request with a
\* timeout raises when the timeout is over, a request without waits
Hang == [Failure EXCEPT !.hangs = TRUE]

Response(status, elapsed, parses, text, anchors) ==
    [raised |-> FALSE, status_code |-> status, elapsed |-> elapsed,
     parses |-> parses, text |-> text, anchors |-> anchors, hangs |-> FALSE]

\* the tag of an element of a page: the elements are anchors unless they
\* say otherwise (name = "div" or "span")
ElementName(element) == IF "name" \in DOMAIN element THEN element.name ELSE "a"

RECURSIVE AnchorChars(_)
AnchorChars(anchors) ==
    IF anchors = <<>> THEN <<>>
    ELSE Chars[Head(anchors).text] \o AnchorChars(Tail(anchors))

\* soup.get_text(): the characters of all the text of the page
get_text(page) == Chars[page.text] \o AnchorChars(page.anchors)

----------------------------------------------------------------------------
(* JobOpportunity *)

\* mutant: the date is the one of the first day, whatever the day of the scan
JobOpportunity_Epoch(title, institution, location, posted_date, description, requirements, url, source) ==
    [title |-> title, institution |-> institution, location |-> location,
     application_deadline |-> NULL, posted_date |-> 0,
     description |-> description, requirements |-> requirements,
     contact_info |-> "", url |-> url, source |-> source]

JobOpportunity(title, institution, location, posted_date, description, requirements, url, source) ==
    [title |-> title, institution |-> institution, location |-> location,
     application_deadline |-> NULL, posted_date |-> posted_date,
     description |-> description, requirements |-> requirements,
     contact_info |-> "", url |-> url, source |-> source]

----------------------------------------------------------------------------
(* WebsiteTester *)

job_keywords == <<"job", "career", "position", "opening", "vacancy", "phd", "postdoc">>

\* mutant: the response time starts as 0 instead of None
DefaultResult_ZeroTime(url, now) ==
    [url |-> url, accessible |-> FALSE, response_time |-> "0.0",
     status_code |-> NULL, has_job_section |-> FALSE, last_checked |-> now]

\* the result dict before the request
DefaultResult(url, now) ==
    [url |-> url, accessible |-> FALSE, response_time |-> NULL,
     status_code |-> NULL, has_job_section |-> FALSE, last_checked |-> now]

\* mutant: the page text is scanned whatever the status code
has_job_section_AnyStatus(response) ==
    /\ response.parses
    /\ AnyIn(job_keywords, lower(get_text(response)))

\* the page is scanned only when it is accessible; when parsing raises the
\* flag keeps its default
has_job_section(response) ==
    /\ response.status_code = "200"
    /\ response.parses
    /\ AnyIn(job_keywords, lower(get_text(response)))

\* mutant: accessible is response.ok (any 2xx) instead of status 200
test_website_accessibility_Ok(url, response, now) ==
    IF response.raised
    THEN DefaultResult(url, now)
    ELSE [DefaultResult(url, now) EXCEPT
            !.response_time = response.elapsed,
            !.status_code = response.status_code,
            !.accessible = (response.status_code \in {"200", "204"}),
            !.has_job_section = has_job_section(response)]

\* mutant: the response time is recorded only for a 200 response
test_website_accessibility_TimeOn200(url, response, now) ==
    IF response.raised
    THEN DefaultResult(url, now)
    ELSE [DefaultResult(url, now) EXCEPT
            !.response_time = IF response.status_code = "200"
                              THEN response.elapsed ELSE NULL,
            !.status_code = response.status_code,
            !.accessible = (response.status_code = "200"),
            !.has_job_section = has_job_section(response)]

test_website_accessibility(url, response, now) ==
    IF response.raised
    THEN DefaultResult(url, now)
    ELSE [DefaultResult(url, now) EXCEPT
            !.response_time = response.elapsed,
            !.status_code = response.status_code,
            !.accessible = (response.status_code = "200"),
            !.has_job_section = has_job_section(response)]

job_patterns == <<"job", "career", "position", "opening", "vacancy",
                  "phd", "postdoc", "graduate", "student">>

\* the most pages find_job_pages returns
JobPageLimit == 5

\* mutant: every anchor counts as a job link
LinkMatches_Always(link) == TRUE

\* any(re.search(pattern, link_text) for pattern in job_patterns)
LinkMatches(link) == AnyIn(job_patterns, lower(Chars[link.text]))

RECURSIVE LinkLoop(_, _, _)
\* the loop over soup.find_all('a', href=True): an anchor without href is
\* not in the list; urljoin raising leaves the loop through the except
\* clause with the pages collected so far
LinkLoop(base_url, anchors, pages) ==
    IF anchors = <<>> THEN pages
    ELSE LET link == Head(anchors)
         IN  IF ElementName(link) # "a" \/ link.href = NULL \/ ~LinkMatches(link)
             THEN LinkLoop(base_url, Tail(anchors), pages)
             ELSE IF UrljoinRaises(base_url, link.href)
             THEN pages
             ELSE LET full_url == urljoin(base_url, link.href)
                  IN  IF full_url \in Range(pages)
                      THEN LinkLoop(base_url, Tail(anchors), pages)
                      ELSE LinkLoop(base_url, Tail(anchors), Append(pages, full_url))

\* mutant: the list is returned without the [:5]
find_job_pages_NoLimit(base_url, response) ==
    IF response.raised \/ response.status_code # "200" \/ ~response.parses
    THEN <<>>
    ELSE LinkLoop(base_url, response.anchors, <<>>)

find_job_pages(base_url, response) ==
    IF response.raised \/ response.status_code # "200" \/ ~response.parses
    THEN <<>>
    ELSE Prefix(LinkLoop(base_url, response.anchors, <<>>), JobPageLimit)

----------------------------------------------------------------------------
(* UniversityJobScraper *)

PsiUrl == "https://www.psi.ch/en/hr/job-opportunities"

\* the most job links scrape_psi_jobs looks at
PsiJobLimit == 10

Digits == {"0", "1", "2", "3", "4", "5", "6", "7", "8", "9"}

\* mutant: every href counts as a job listing
IsJobLink_AnyHref(href) == href # NULL

\* re.compile(r'/job-opportunities/\d+') searched in the href
IsJobLink(href) ==
    /\ href # NULL
    /\ LET chars == Chars[href]
           prefix == Chars["/job-opportunities/"]
       IN  \E i \in 0..(Len(chars) - Len(prefix) - 1) :
               /\ SubSeq(chars, i + 1, i + Len(prefix)) = prefix
               /\ chars[i + Len(prefix) + 1] \in Digits

RECURSIVE PsiLoop(_, _, _)
\* the loop over job_links[:10]
PsiLoop(job_links, opportunities, now) ==
    IF job_links = <<>> THEN opportunities
    ELSE LET link == Head(job_links)
         IN  IF UrljoinRaises(PsiUrl, link.href)
             THEN opportunities
             ELSE LET job_url == urljoin(PsiUrl, link.href)
                      job_title == strip(link.text)
                  IN  IF \/ Contains(lower(Chars[job_title]), Chars["phd"])
                         \/ Contains(lower(Chars[job_title]), Chars["student"])
                      THEN PsiLoop(Tail(job_links),
                                   Append(opportunities,
                                          JobOpportunity(job_title, "Paul Scherrer Institute",
                                                         "Switzerland", now, "", <<>>,
                                                         job_url, "university_website")),
                                   now)
                      ELSE PsiLoop(Tail(job_links), opportunities, now)

\* mutant: the keyword filter comes first, the limit of 10 after it
scrape_psi_jobs_FilterFirst(response, now) ==
    IF response.raised \/ response.status_code # "200" \/ ~response.parses
    THEN <<>>
    ELSE LET job_links == SelectRows(response.anchors,
                                     [a \in Range(response.anchors) |->
                                         ElementName(a) = "a" /\ IsJobLink(a.href)])
         IN  Prefix(PsiLoop(job_links, <<>>, now), PsiJobLimit)

scrape_psi_jobs(response, now) ==
    IF response.raised \/ response.status_code # "200" \/ ~response.parses
    THEN <<>>
    ELSE LET job_links == SelectRows(response.anchors,
                                     [a \in Range(response.anchors) |->
                                         ElementName(a) = "a" /\ IsJobLink(a.href)])
         IN  PsiLoop(Prefix(job_links, PsiJobLimit), <<>>, now)

phd_keywords == <<"phd", "doctorate", "doctoral", "graduate student", "research assistant">>

RECURSIVE GenericLoop(_, _, _, _, _)
\* the loop over soup.find_all(['a', 'div', 'span']): only an anchor with a
\* non-empty href emits an opportunity
GenericLoop(university_name, job_page_url, elements, opportunities, now) ==
    IF elements = <<>> THEN opportunities
    ELSE LET element == Head(elements)
         IN  IF /\ AnyIn(phd_keywords, lower(Chars[element.text]))
                /\ ElementName(element) = "a"
                /\ element.href # NULL /\ element.href # ""
             THEN IF UrljoinRaises(job_page_url, element.href)
                  THEN opportunities
                  ELSE GenericLoop(university_name, job_page_url, Tail(elements),
                                   Append(opportunities,
                                          JobOpportunity(strip(element.text), university_name,
                                                         "", now, "", <<>>,
                                                         urljoin(job_page_url, element.href),
                                                         "university_website")),
                                   now)
             ELSE GenericLoop(university_name, job_page_url, Tail(elements), opportunities, now)

scrape_generic_university(university_name, job_page_url, response, now) ==
    IF response.raised \/ response.status_code # "200" \/ ~response.parses
    THEN <<>>
    ELSE GenericLoop(university_name, job_page_url, response.anchors, <<>>, now)

----------------------------------------------------------------------------
(* LinkedInScraper *)

\* A search shows job cards.  A card lacks one of its elements
\* (complete = FALSE: find_element raises) or gives title, company, location
\* and the href of its first anchor (NULL when the anchor has no href); the
\* detail page of the job can be read or not.

\* the most cards of a search that are looked at
CardLimit == 10

\* mutant: the description is searched as it is written, not lowercased
get_job_details_CaseSensitive(job_url, card) ==
    IF job_url = NULL \/ ~card.readable
    THEN [description |-> "", requirements |-> <<>>]
    ELSE LET desc == Chars[card.description]
         IN  [description |-> card.description,
              requirements |->
                  (IF Contains(desc, Chars["phd"]) \/ Contains(desc, Chars["doctorate"])
                   THEN <<"PhD or equivalent degree">> ELSE <<>>)
                  \o (IF Contains(desc, Chars["experience"])
                      THEN <<"Relevant research experience">> ELSE <<>>)]

get_job_details(job_url, card) ==
    IF job_url = NULL \/ ~card.readable
    THEN [description |-> "", requirements |-> <<>>]
    ELSE LET desc_lower == lower(Chars[card.description])
         IN  [description |-> card.description,
              requirements |->
                  (IF Contains(desc_lower, Chars["phd"]) \/ Contains(desc_lower, Chars["doctorate"])
                   THEN <<"PhD or equivalent degree">> ELSE <<>>)
                  \o (IF Contains(desc_lower, Chars["experience"])
                      THEN <<"Relevant research experience">> ELSE <<>>)]

RECURSIVE CardLoop(_, _, _)
\* the loop over job_cards[:10]: a card that raises is skipped
CardLoop(job_cards, opportunities, now) ==
    IF job_cards = <<>> THEN opportunities
    ELSE LET card == Head(job_cards)
         IN  IF ~card.complete
             THEN CardLoop(Tail(job_cards), opportunities, now)
             ELSE LET link == card.href
                      job_details == get_job_details(link, card)
                  IN  CardLoop(Tail(job_cards),
                               Append(opportunities,
                                      JobOpportunity(card.title, card.company, card.location,
                                                     now, job_details.description,
                                                     job_details.requirements, link,
                                                     "linkedin")),
                               now)

RECURSIVE KeywordLoop(_, _, _)
\* the loop over the keywords: a search that raises ends the whole search
KeywordLoop(searches, opportunities, now) ==
    IF searches = <<>> THEN opportunities
    ELSE IF Head(searches).raised THEN opportunities
    ELSE KeywordLoop(Tail(searches),
                     CardLoop(Prefix(Head(searches).cards, CardLimit), opportunities, now),
                     now)

\* driver: whether Chrome could be started; searches: what each keyword shows
search_phd_positions(driver, searches, now) ==
    IF ~driver THEN <<>> ELSE KeywordLoop(searches, <<>>, now)

----------------------------------------------------------------------------
(* DatabaseManager *)

\* NOT NULL constraints of job_opportunities: with OR REPLACE a NULL in a
\* NOT NULL column without default aborts the statement (IntegrityError).
IntegrityError(opp) == opp.title = NULL \/ opp.institution = NULL

\* The rows of the table that the UNIQUE url column sets in conflict with
\* the new row.  NULLs never conflict in a UNIQUE column.
Conflicts(table, row) ==
    [r \in Range(table) |-> row.url # NULL /\ r.url = row.url]

\* mutant: INSERT OR IGNORE, the stored row wins
InsertOrReplace_Ignore(table, row) ==
    IF \E r \in Range(table) : Conflicts(table, row)[r] THEN table ELSE Append(table, row)

\* mutant: the url column is not UNIQUE, the row is added
InsertOrReplace_Plain(table, row) == Append(table, row)

\* INSERT OR REPLACE: the conflicting rows are deleted, then the new row is
\* inserted with the next rowid
InsertOrReplace(table, row) ==
    SelectRows(table, [r \in Range(table) |-> ~Conflicts(table, row)[r]]) \o <<row>>

RECURSIVE SaveLoop_StopOnError(_, _)
\* mutant: the try block is around the loop, the first IntegrityError ends it
SaveLoop_StopOnError(table, opportunities) ==
    IF opportunities = <<>> THEN table
    ELSE LET opp == Head(opportunities)
         IN  IF IntegrityError(opp)
             THEN table
             ELSE SaveLoop_StopOnError(InsertOrReplace(table, opp), Tail(opportunities))

RECURSIVE SaveLoop_DeleteOnError(_, _)
\* mutant: a row that raises IntegrityError has already deleted the row it
\* was to replace
SaveLoop_DeleteOnError(table, opportunities) ==
    IF opportunities = <<>> THEN table
    ELSE LET opp == Head(opportunities)
         IN  IF IntegrityError(opp)
             THEN SaveLoop_DeleteOnError(
                      SelectRows(table, [r \in Range(table) |-> ~Conflicts(table, opp)[r]]),
                      Tail(opportunities))
             ELSE SaveLoop_DeleteOnError(InsertOrReplace(table, opp), Tail(opportunities))

RECURSIVE SaveLoop(_, _)
\* the for loop of save_opportunities: a row that raises IntegrityError is
\* logged and skipped, every other row is inserted-or-replaced
SaveLoop(table, opportunities) ==
    IF opportunities = <<>> THEN table
    ELSE LET opp == Head(opportunities)
         IN  IF IntegrityError(opp)
             THEN SaveLoop(table, Tail(opportunities))
             ELSE SaveLoop(InsertOrReplace(table, opp), Tail(opportunities))

RECURSIVE DeletedBy(_, _)
\* history: the rows that the loop deleted
DeletedBy(table, opportunities) ==
    IF opportunities = <<>> THEN {}
    ELSE LET opp == Head(opportunities)
         IN  IF IntegrityError(opp)
             THEN DeletedBy(table, Tail(opportunities))
             ELSE {r \in Range(table) : Conflicts(table, opp)[r]}
                    \cup DeletedBy(InsertOrReplace(table, opp), Tail(opportunities))

\* history: the last posting of the batch for url u that the store accepted
LastAccepted(opportunities, u, before) ==
    LET idx == {i \in 1..Len(opportunities) :
                    opportunities[i].url = u /\ ~IntegrityError(opportunities[i])}
    IN  IF idx = {} THEN before
        ELSE <<opportunities[CHOOSE i \in idx : \A j \in idx : j <= i]>>

save_opportunities(opportunities) ==
    /\ job_opportunities' = SaveLoop(job_opportunities, opportunities)
    /\ lastCall' = [op |-> "save_opportunities",
                    deleted |-> DeletedBy(job_opportunities, opportunities)
                                   \cap Range(job_opportunities)]
    /\ latestPosting' = [u \in DOMAIN latestPosting |->
                            LastAccepted(opportunities, u, latestPosting[u])]
    /\ UNCHANGED <<website_monitoring, latestTest>>

\* mutant: every statement is committed as it is executed
RolledBack_Autocommit(table, opportunities, fault) ==
    SaveLoop(table, Prefix(opportunities, fault - 1))

\* the table after the execute of posting number fault raised an exception
\* other than IntegrityError: the exception leaves the with block before
\* conn.commit() and the connection rolls the open transaction back
RolledBack(table, opportunities, fault) == table

\* save_opportunities when the execute of posting number fault raises an
\* exception the loop does not catch: nothing of the batch is stored and the
\* exception reaches the caller
save_opportunities_raises(opportunities, fault) ==
    /\ job_opportunities' = RolledBack(job_opportunities, opportunities, fault)
    /\ lastCall' = [op |-> "save_opportunities", deleted |-> {}]
    /\ UNCHANGED <<website_monitoring, latestPosting, latestTest>>

save_website_test(test_result) ==
    /\ website_monitoring' = InsertOrReplace(website_monitoring, test_result)
    /\ lastCall' = [op |-> "save_website_test",
                    deleted |-> {r \in Range(website_monitoring) :
                                    Conflicts(website_monitoring, test_result)[r]}]
    /\ latestTest' = [latestTest EXCEPT ![test_result.url] = <<test_result>>]
    /\ UNCHANGED <<job_opportunities, latestPosting>>

\* the urls postings and health records are stored for
LinkedInUrls == {"https://www.linkedin.com/jobs/view/1", "https://www.linkedin.com/jobs/view/2"}

KnownUrls == DOMAIN UrlParts \cup LinkedInUrls

\* DatabaseManager.__init__: init_database creates the empty tables
EmptyStore ==
    /\ job_opportunities = <<>>
    /\ website_monitoring = <<>>
    /\ lastCall = [op |-> "init_database", deleted |-> {}]
    /\ latestPosting = [u \in KnownUrls |-> <<>>]
    /\ latestTest = [u \in KnownUrls |-> <<>>]

----------------------------------------------------------------------------
(* States of the parts a specification does not exercise *)

\* no operation is under test
NoCall ==
    /\ fetched = <<>>
    /\ result = <<>>

\* nothing answers
NoWorld ==
    /\ web = <<>>
    /\ linkedin = [driver |-> FALSE, searches |-> <<>>]
    /\ today = 0

\* no scan runs
NoScan ==
    /\ pc = "idle"
    /\ site = 1
    /\ job_pages = <<>>
    /\ all_opportunities = <<>>
    /\ scanLog = <<>>

\* no backup was made and no operation was monitored
NoRunner ==
    /\ backup_dir = {}
    /\ performance_logs = <<>>

----------------------------------------------------------------------------
(* The persistence layer called directly *)

StoreUrls == {"https://jobs.ethz.ch/p1", "https://careers.cern/p1"}

\* JobOpportunity values handed to save_opportunities: title and institution
\* are NOT NULL columns, url is the UNIQUE column, the rest is carried along.
SamplePostings ==
    {JobOpportunity(t, "ETH Zurich", "", 0, "", <<>>, u, "university_website") :
        t \in {"PhD", "Technician", NULL}, u \in StoreUrls \cup {NULL}}

\* Health records handed to save_website_test, of the shapes
\* test_website_accessibility builds
SampleTestResults ==
    {[url |-> u, accessible |-> o[1], response_time |-> o[2], status_code |-> o[3],
      has_job_section |-> o[4], last_checked |-> 0] :
        u \in StoreUrls,
        o \in {<<TRUE, "0.25", "200", TRUE>>, <<TRUE, "0.25", "200", FALSE>>,
               <<FALSE, "0.25", "404", FALSE>>, <<FALSE, NULL, NULL, FALSE>>}}

NullRows(table) == Len(SelectRows(table, [r \in Range(table) |-> r.url = NULL]))

InitStore == EmptyStore /\ NoCall /\ NoWorld /\ NoScan /\ NoRunner

CallSaveOpportunities ==
    \E opportunities \in SeqsUpTo(SamplePostings, MaxBatch) :
        /\ NullRows(SaveLoop(job_opportunities, opportunities)) <= MaxNullRows
        /\ save_opportunities(opportunities)
        /\ UNCHANGED <<callVars, worldVars, scanVars, runnerVars>>

NextStore == CallSaveOpportunities

SpecStore == InitStore /\ [][NextStore]_vars

CallSaveWebsiteTest ==
    \E test_result \in SampleTestResults :
        /\ save_website_test(test_result)
        /\ UNCHANGED <<callVars, worldVars, scanVars, runnerVars>>

NextMonitoring == CallSaveWebsiteTest

SpecMonitoring == InitStore /\ [][NextMonitoring]_vars

----------------------------------------------------------------------------
(* save_opportunities called with batches, the store failing at any row *)

\* two postings for one url, one for another, one that violates NOT NULL
BatchPostings ==
    {JobOpportunity("PhD", "ETH Zurich", "", 0, "", <<>>,
                    "https://jobs.ethz.ch/p1", "university_website"),
     JobOpportunity("Technician", "ETH Zurich", "", 0, "", <<>>,
                    "https://jobs.ethz.ch/p1", "university_website"),
     JobOpportunity("PhD", "ETH Zurich", "", 0, "", <<>>,
                    "https://careers.cern/p1", "university_website"),
     JobOpportunity(NULL, "ETH Zurich", "", 0, "", <<>>,
                    "https://careers.cern/p1", "university_website")}

\* fault = 0: every execute returns or raises IntegrityError; fault = k: the
\* execute of posting k raises another exception (sqlite3.OperationalError:
\* the database is locked, the disk is full)
CallSaveBatch ==
    \E opportunities \in SeqsUpTo(BatchPostings, MaxBatch) :
        \E fault \in 0..Len(opportunities) :
            /\ IF fault = 0
               THEN save_opportunities(opportunities)
               ELSE save_opportunities_raises(opportunities, fault)
            /\ fetched' = <<[opportunities |-> opportunities, fault |-> fault]>>
            /\ result' = <<[raised |-> fault # 0]>>
            /\ UNCHANGED <<worldVars, scanVars, runnerVars>>

NextBatch == CallSaveBatch

SpecBatch == InitStore /\ [][NextBatch]_vars

----------------------------------------------------------------------------
(* The website test applied to every fetch outcome *)

SampleTexts == {"", "Open Jobs", "PhD", "CAREERS", "Graduate Student", "About Us", "Jo"}

StatusCodes == {"200", "204", "404", "500"}

ClassifyInputs ==
    {Failure} \cup
    {Response(st, "0.25", ok, t, a) :
        st \in StatusCodes, ok \in BOOLEAN, t \in SampleTexts,
        a \in {<<>>, <<[href |-> "/p1", text |-> "b"]>>}}

CallTestWebsiteAccessibility ==
    \E url \in StoreUrls, response \in ClassifyInputs :
        /\ fetched' = <<response>>
        /\ result' = <<test_website_accessibility(url, response, today)>>
        /\ UNCHANGED <<storeVars, worldVars, scanVars, runnerVars>>

NextClassify == CallTestWebsiteAccessibility

SpecClassify == InitStore /\ [][NextClassify]_vars

----------------------------------------------------------------------------
(* find_job_pages applied to pages that grow anchor by anchor *)

LinkBase == "https://jobs.ethz.ch/"

\* the site answers with a failure, a 404, a body that cannot be parsed, or
\* a page
LinkStartResponses ==
    {Failure,
     Response("404", "0.25", TRUE, "", <<[href |-> "/p1", text |-> "Open Jobs"]>>),
     Response("200", "0.25", FALSE, "", <<[href |-> "/p1", text |-> "Open Jobs"]>>),
     Response("200", "0.25", TRUE, "", <<>>)}

InitLinks ==
    /\ EmptyStore /\ NoWorld /\ NoScan /\ NoRunner
    /\ fetched \in {<<r>> : r \in LinkStartResponses}
    /\ result = <<>>

\* the next path that is not yet on the page
FreshPath(anchors) ==
    Paths[Cardinality({i \in 1..Len(Paths) :
                          \E k \in 1..Len(anchors) : anchors[k].href = Paths[i]}) + 1]

\* the anchors the page can grow by: a new path with matching or with other
\* text, the first page again as an absolute url, an href that does not
\* resolve, an anchor without href
NextAnchors(anchors) ==
    {[href |-> FreshPath(anchors), text |-> "Open Jobs"],
     [href |-> FreshPath(anchors), text |-> "About Us"],
     [href |-> urljoin(LinkBase, "/p1"), text |-> "Graduate Student"],
     [href |-> BadHref, text |-> "PhD"],
     [href |-> NULL, text |-> "CAREERS"]}

AddAnchor ==
    /\ ~fetched[1].raised /\ fetched[1].status_code = "200" /\ fetched[1].parses
    /\ Len(fetched[1].anchors) < MaxAnchors
    /\ \E a \in NextAnchors(fetched[1].anchors) :
          fetched' = <<[fetched[1] EXCEPT !.anchors = Append(@, a)]>>
    /\ result' = <<>>
    /\ UNCHANGED <<storeVars, worldVars, scanVars, runnerVars>>

CallFindJobPages ==
    /\ result = <<>>
    /\ result' = <<find_job_pages(LinkBase, fetched[1])>>
    /\ UNCHANGED <<storeVars, fetched, worldVars, scanVars, runnerVars>>

NextLinks == AddAnchor \/ CallFindJobPages

SpecLinks == InitLinks /\ [][NextLinks]_vars

----------------------------------------------------------------------------
(* The scrapers applied to pages that grow element by element *)

ExtractUniversity == "ETH Zurich"

\* the page scrape_generic_university is sent to
ExtractPage == "https://jobs.ethz.ch/p8"

\* the site answers with a failure, a 404, a body that cannot be parsed, or
\* a page
ExtractStartResponses ==
    {Failure,
     Response("404", "0.25", TRUE, "",
              <<[name |-> "a", href |-> "/job-opportunities/101", text |-> "PhD"]>>),
     Response("200", "0.25", FALSE, "",
              <<[name |-> "a", href |-> "/job-opportunities/101", text |-> "PhD"]>>),
     Response("200", "0.25", TRUE, "", <<>>)}

\* the elements a page can grow by: anchors with and without a numbered
\* listing path, with and without a keyword, with an empty, a missing and an
\* unresolvable href, and a div with a keyword
ExtractElements ==
    {[name |-> "a", href |-> "/jobs/42", text |-> "PhD Student Position"],
     [name |-> "a", href |-> "/job-opportunities/101", text |-> " PhD Student Position "],
     [name |-> "a", href |-> "/job-opportunities/102", text |-> "Technician"],
     [name |-> "a", href |-> "/p1", text |-> "Research Assistant"],
     [name |-> "a", href |-> "/p1", text |-> "About Us"],
     [name |-> "a", href |-> "", text |-> "PhD"],
     [name |-> "a", href |-> NULL, text |-> "Doctorate and experience"],
     [name |-> "div", href |-> NULL, text |-> "Graduate Student"],
     [name |-> "a", href |-> BadHref, text |-> "PhD"]}

InitExtract ==
    /\ EmptyStore /\ NoWorld /\ NoScan /\ NoRunner
    /\ fetched \in {<<r>> : r \in ExtractStartResponses}
    /\ result = <<>>

AddElement ==
    /\ ~fetched[1].raised /\ fetched[1].status_code = "200" /\ fetched[1].parses
    /\ Len(fetched[1].anchors) < MaxElements
    /\ \E e \in ExtractElements :
          fetched' = <<[fetched[1] EXCEPT !.anchors = Append(@, e)]>>
    /\ result' = <<>>
    /\ lastCall' = [op |-> "init_database", deleted |-> {}]
    /\ UNCHANGED <<job_opportunities, website_monitoring, latestPosting, latestTest,
                   worldVars, scanVars, runnerVars>>

CallScrapePsiJobs ==
    /\ result = <<>>
    /\ result' = <<scrape_psi_jobs(fetched[1], today)>>
    /\ lastCall' = [op |-> "scrape_psi_jobs", deleted |-> {}]
    /\ UNCHANGED <<job_opportunities, website_monitoring, latestPosting, latestTest,
                   fetched, worldVars, scanVars, runnerVars>>

CallScrapeGenericUniversity ==
    /\ result = <<>>
    /\ result' = <<scrape_generic_university(ExtractUniversity, ExtractPage,
                                             fetched[1], today)>>
    /\ lastCall' = [op |-> "scrape_generic_university", deleted |-> {}]
    /\ UNCHANGED <<job_opportunities, website_monitoring, latestPosting, latestTest,
                   fetched, worldVars, scanVars, runnerVars>>

NextExtract == AddElement \/ CallScrapePsiJobs \/ CallScrapeGenericUniversity

SpecExtract == InitExtract /\ [][NextExtract]_vars

----------------------------------------------------------------------------
(* WebReportGenerator: the summary of a store that fills over months *)

\* the window of the recent count
RecentDays == 30

\* mutant: the window is a week
get_data_summary_Week(table, now) ==
    [total_jobs |-> Len(table),
     recent_jobs |-> Cardinality({i \in 1..Len(table) : table[i].posted_date >= now - 7})]

\* SELECT COUNT(*) FROM job_opportunities, and the same WHERE posted_date >=
\* date('now', '-30 days').  Dates are day numbers: the text dates of the
\* code are YYYY-MM-DD, which compare as their days do.
get_data_summary(table, now) ==
    [total_jobs |-> Len(table),
     recent_jobs |-> Cardinality({i \in 1..Len(table) :
                                     table[i].posted_date >= now - RecentDays})]

ReportUrls == StoreUrls \cup {"https://www.psi.ch/job-opportunities/101"}

\* a scraper finds one posting today and it is saved
SaveToday ==
    /\ \E u \in ReportUrls :
          save_opportunities(<<JobOpportunity("PhD", "ETH Zurich", "", today, "", <<>>,
                                              u, "university_website")>>)
    /\ result' = <<>>
    /\ UNCHANGED <<fetched, worldVars, scanVars, runnerVars>>

\* a month passes without a scan
PassDays ==
    /\ \E d \in {RecentDays, RecentDays + 1} :
          /\ today + d <= MaxReportDay
          /\ today' = today + d
    /\ result' = <<>>
    /\ UNCHANGED <<storeVars, fetched, web, linkedin, scanVars, runnerVars>>

CallGetDataSummary ==
    /\ result = <<>>
    /\ result' = <<get_data_summary(job_opportunities, today)>>
    /\ UNCHANGED <<storeVars, fetched, worldVars, scanVars, runnerVars>>

NextReport == SaveToday \/ PassDays \/ CallGetDataSummary

SpecReport == InitStore /\ [][NextReport]_vars

----------------------------------------------------------------------------
(* scrape_psi_jobs applied to long listing pages *)

PhdListing == [name |-> "a", href |-> "/job-opportunities/101", text |-> "PhD Student Position"]

OtherListing == [name |-> "a", href |-> "/job-opportunities/102", text |-> "Technician"]

OtherLink == [name |-> "a", href |-> "/jobs/42", text |-> "PhD"]

Count(anchors, a) == Cardinality({i \in 1..Len(anchors) : anchors[i] = a})

InitPsiCap ==
    /\ EmptyStore /\ NoWorld /\ NoScan /\ NoRunner
    /\ fetched = <<Response("200", "0.25", TRUE, "", <<>>)>>
    /\ result = <<>>

\* the listing page grows by a PhD listing, by a listing of another job or by
\* a link that is no listing
AddPsiAnchor ==
    /\ Len(fetched[1].anchors) < MaxPsiAnchors
    /\ \E a \in {PhdListing, OtherListing, OtherLink} :
          /\ a # PhdListing => Count(fetched[1].anchors, a) < MaxOtherAnchors
          /\ fetched' = <<[fetched[1] EXCEPT !.anchors = Append(@, a)]>>
    /\ result' = <<>>
    /\ lastCall' = [op |-> "init_database", deleted |-> {}]
    /\ UNCHANGED <<job_opportunities, website_monitoring, latestPosting, latestTest,
                   worldVars, scanVars, runnerVars>>

NextPsiCap == AddPsiAnchor \/ CallScrapePsiJobs

SpecPsiCap == InitPsiCap /\ [][NextPsiCap]_vars

----------------------------------------------------------------------------
(* The LinkedIn search applied to one card *)

SampleDescriptions ==
    {"", "PhD", "We want experience", "Doctorate and experience", "STUDENT intern",
     "About Us", "Research Assistant", "Technician", "Graduate Student",
     "PhD Student Position"}

\* the cards a search can show: with or without title (a card without raises
\* and is skipped), with or without href, with a detail page that can be
\* read or not
SampleCards ==
    {[complete |-> c, title |-> "PhD", company |-> "KU Leuven", location |-> "",
      href |-> h, readable |-> r, description |-> d] :
        c \in BOOLEAN, h \in LinkedInUrls \cup {NULL}, r \in BOOLEAN,
        d \in SampleDescriptions}

CallSearchPhdPositions ==
    \E card \in SampleCards :
        /\ fetched' = <<card>>
        /\ result' = <<search_phd_positions(TRUE, <<[raised |-> FALSE, cards |-> <<card>>]>>,
                                            today)>>
        /\ UNCHANGED <<storeVars, worldVars, scanVars, runnerVars>>

NextDetails == CallSearchPhdPositions

SpecDetails == InitStore /\ [][NextDetails]_vars

----------------------------------------------------------------------------
(* WebReportGenerator: the breakdown by institution of a store that grows *)

\* institution names in the order of the BINARY collation of the column
Institutions ==
    <<"CERN", "ETH Zurich", "Harvard University", "Johns Hopkins University", "KU Leuven",
      "MIT", "Paul Scherrer Institute", "Stanford University", "TU Delft",
      "University of California, Berkeley", "University of Michigan",
      "University of Pennsylvania", "Uppsala University">>

IndexOf(institution) == CHOOSE i \in 1..Len(Institutions) : Institutions[i] = institution

\* the most rows of the breakdown
InstitutionLimit == 10

\* COUNT(*) of the group of the institution
CountOf(table, institution) ==
    Cardinality({i \in 1..Len(table) : table[i].institution = institution})

\* GROUP BY institution
Groups(table) == {table[i].institution : i \in 1..Len(table)}

\* ORDER BY count DESC; SQL leaves the order of groups with equal counts
\* open, ties says which way this run of the query puts them
ComesBefore(table, ties, g, h) ==
    \/ CountOf(table, g) > CountOf(table, h)
    \/ /\ CountOf(table, g) = CountOf(table, h)
       /\ IF ties = "ascending" THEN IndexOf(g) < IndexOf(h) ELSE IndexOf(g) > IndexOf(h)

RECURSIVE Ranked(_, _, _)
Ranked(table, ties, groups) ==
    IF groups = {} THEN <<>>
    ELSE LET first == CHOOSE g \in groups :
                          \A h \in groups \ {g} : ComesBefore(table, ties, g, h)
         IN  <<[institution |-> first, count |-> CountOf(table, first)]>>
                 \o Ranked(table, ties, groups \ {first})

\* mutant: LIMIT 10 cuts the groups before they are ordered by count
jobs_by_institution_LimitFirst(table, ties) ==
    Ranked(table, ties,
           {g \in Groups(table) :
               Cardinality({h \in Groups(table) : IndexOf(h) < IndexOf(g)}) < InstitutionLimit})

\* SELECT institution, COUNT(*) as count ... GROUP BY institution
\* ORDER BY count DESC LIMIT 10
jobs_by_institution(table, ties) ==
    Prefix(Ranked(table, ties, Groups(table)), InstitutionLimit)

BreakdownHosts == <<"https://jobs.ethz.ch", "https://careers.cern", "https://www.psi.ch">>

\* the url of the n-th posting that is saved: all are different
BreakdownUrl(n) ==
    CHOOSE u \in DOMAIN UrlParts :
        UrlParts[u] = <<BreakdownHosts[((n - 1) \div Len(Paths)) + 1],
                        Paths[((n - 1) % Len(Paths)) + 1]>>

\* a posting is saved for the institution of the last one or for the next
\* institution
SaveForInstitution ==
    /\ LET n == Len(job_opportunities)
           present == Cardinality(Groups(job_opportunities))
       IN  \E k \in {present, present + 1} :
               /\ k \in 1..MaxInstitutions
               /\ k = present => n - present < MaxExtraRows
               /\ save_opportunities(<<JobOpportunity("PhD", Institutions[k], "", today, "",
                                                       <<>>, BreakdownUrl(n + 1),
                                                       "university_website")>>)
    /\ result' = <<>>
    /\ UNCHANGED <<fetched, worldVars, scanVars, runnerVars>>

CallJobsByInstitution ==
    /\ result = <<>>
    /\ \E ties \in {"ascending", "descending"} :
          result' = <<jobs_by_institution(job_opportunities, ties)>>
    /\ UNCHANGED <<storeVars, fetched, worldVars, scanVars, runnerVars>>

NextBreakdown == SaveForInstitution \/ CallJobsByInstitution

SpecBreakdown == InitStore /\ [][NextBreakdown]_vars

----------------------------------------------------------------------------
(* WebReportGenerator: the three aggregators asked again and again while   *)
(* the store is written and days pass                                     *)

Aggregators == {"get_data_summary", "get_recent_opportunities", "get_website_monitoring_data"}

\* response times in hundredths of a second; NULL sorts before every number
Hundredths(response_time) ==
    CASE response_time = NULL -> -1
      [] response_time = "0.25" -> 25

RECURSIVE OrderedRows(_, _, _, _)
\* the rows of table with the numbers in rows, ORDER BY key; SQL leaves the
\* order of rows with equal keys open, ties says which way this run puts them
OrderedRows(table, key, ties, rows) ==
    IF rows = {} THEN <<>>
    ELSE LET first == CHOOSE i \in rows :
                          \A j \in rows \ {i} :
                              \/ key[i] < key[j]
                              \/ /\ key[i] = key[j]
                                 /\ IF ties = "ascending" THEN i < j ELSE i > j
         IN  <<table[first]>> \o OrderedRows(table, key, ties, rows \ {first})

\* SELECT source, COUNT(*) as count FROM job_opportunities GROUP BY source
jobs_by_source(table) ==
    {[source |-> src,
      count |-> Cardinality({i \in 1..Len(table) : table[i].source = src})] :
        src \in {table[i].source : i \in 1..Len(table)}}

\* SELECT COUNT(*) as total, SUM(CASE WHEN accessible = 1 THEN 1 ELSE 0 END)
\* as accessible FROM website_monitoring
website_status(monitoring) ==
    [total |-> Len(monitoring),
     accessible |-> Cardinality({i \in 1..Len(monitoring) : monitoring[i].accessible})]

\* the dictionary get_data_summary returns
data_summary(table, monitoring, now, ties) ==
    [total_jobs |-> get_data_summary(table, now).total_jobs,
     recent_jobs |-> get_data_summary(table, now).recent_jobs,
     jobs_by_source |-> jobs_by_source(table),
     jobs_by_institution |-> jobs_by_institution(table, ties),
     website_stats |-> website_status(monitoring)]

\* SELECT title, institution, location, posted_date, url, source FROM
\* job_opportunities ORDER BY posted_date DESC LIMIT ?
get_recent_opportunities(table, limit, ties) ==
    LET ordered == OrderedRows(table, [i \in 1..Len(table) |-> 0 - table[i].posted_date],
                               ties, 1..Len(table))
    IN  [i \in 1..Len(Prefix(ordered, limit)) |->
            [title |-> ordered[i].title, institution |-> ordered[i].institution,
             location |-> ordered[i].location, posted_date |-> ordered[i].posted_date,
             url |-> ordered[i].url, source |-> ordered[i].source]]

\* SELECT url, accessible, response_time, has_job_section, last_checked FROM
\* website_monitoring ORDER BY response_time
get_website_monitoring_data(monitoring, ties) ==
    LET ordered == OrderedRows(monitoring,
                               [i \in 1..Len(monitoring) |->
                                   Hundredths(monitoring[i].response_time)],
                               ties, 1..Len(monitoring))
    IN  [i \in 1..Len(ordered) |->
            [url |-> ordered[i].url, accessible |-> ordered[i].accessible,
             response_time |-> ordered[i].response_time,
             has_job_section |-> ordered[i].has_job_section,
             last_checked |-> ordered[i].last_checked]]

\* limit as the callers pass it: the default, and one that cuts the list
Limits == {1, 20}

ReportTestResults ==
    {[url |-> u, accessible |-> o[1], response_time |-> o[2], status_code |-> o[3],
      has_job_section |-> o[4], last_checked |-> 0] :
        u \in StoreUrls,
        o \in {<<TRUE, "0.25", "200", TRUE>>, <<FALSE, NULL, NULL, FALSE>>}}

\* the replies the aggregators gave since the store was last written: for
\* each aggregator none or its last one, with the arguments and the date of
\* the call and whether the same call had been made before
Replies == IF result = <<>> THEN [op \in Aggregators |-> <<>>] ELSE result[1]

Replied(op, args, reply) ==
    result' = <<[Replies EXCEPT ![op] =
                    <<[reply |-> reply, args |-> args, today |-> today,
                       again |-> /\ Replies[op] # <<>>
                                 /\ Replies[op][1].args = args]>>]>>

\* a scraper finds one posting today and it is saved
SavePosting ==
    /\ \E u \in StoreUrls :
          save_opportunities(<<JobOpportunity("PhD", "ETH Zurich", "", today, "", <<>>,
                                              u, "university_website")>>)
    /\ result' = <<>>
    /\ UNCHANGED <<fetched, worldVars, scanVars, runnerVars>>

\* a health record is saved
SaveTestResult ==
    /\ \E test_result \in ReportTestResults : save_website_test(test_result)
    /\ result' = <<>>
    /\ UNCHANGED <<fetched, worldVars, scanVars, runnerVars>>

\* a month passes without a write
DaysPass ==
    /\ \E d \in {RecentDays, RecentDays + 1} :
          /\ today + d <= MaxSummaryDay
          /\ today' = today + d
    /\ UNCHANGED <<storeVars, callVars, web, linkedin, scanVars, runnerVars>>

AskDataSummary ==
    /\ \E ties \in {"ascending", "descending"} :
          Replied("get_data_summary", <<>>,
                  data_summary(job_opportunities, website_monitoring, today, ties))
    /\ UNCHANGED <<storeVars, fetched, worldVars, scanVars, runnerVars>>

AskRecentOpportunities ==
    /\ \E limit \in Limits, ties \in {"ascending", "descending"} :
          Replied("get_recent_opportunities", <<limit>>,
                  get_recent_opportunities(job_opportunities, limit, ties))
    /\ UNCHANGED <<storeVars, fetched, worldVars, scanVars, runnerVars>>

\* mutant: the rows of the sites that did not answer are deleted once they
\* are read
AskWebsiteMonitoringData_Purge ==
    /\ \E ties \in {"ascending", "descending"} :
          Replied("get_website_monitoring_data", <<>>,
                  get_website_monitoring_data(website_monitoring, ties))
    /\ website_monitoring' =
           SelectRows(website_monitoring,
                      [r \in Range(website_monitoring) |-> r.accessible])
    /\ UNCHANGED <<job_opportunities, lastCall, latestPosting, latestTest,
                   fetched, worldVars, scanVars, runnerVars>>

AskWebsiteMonitoringData ==
    /\ \E ties \in {"ascending", "descending"} :
          Replied("get_website_monitoring_data", <<>>,
                  get_website_monitoring_data(website_monitoring, ties))
    /\ UNCHANGED <<storeVars, fetched, worldVars, scanVars, runnerVars>>

NextAggregators ==
    \/ SavePosting
    \/ SaveTestResult
    \/ DaysPass
    \/ AskDataSummary
    \/ AskRecentOpportunities
    \/ AskWebsiteMonitoringData

SpecAggregators == InitStore /\ [][NextAggregators]_vars

----------------------------------------------------------------------------
(* EnhancedRunner.run_full_update_with_notifications: the store is counted, *)
(* the scan runs, the store is counted again and the notifiers are called   *)

\* new_opps_dict: SELECT title, institution, location, posted_date, url,
\* source FROM job_opportunities ORDER BY rowid DESC LIMIT new_count -
\* baseline_count, read when new_count > baseline_count.  The rows of a
\* table are in the order of their rowids.
new_opportunities(table, baseline_count) ==
    LET new_count == Len(table)
    IN  IF new_count > baseline_count
        THEN [i \in 1..(new_count - baseline_count) |->
                 LET opp == table[new_count + 1 - i]
                 IN  [title |-> opp.title, institution |-> opp.institution,
                      location |-> opp.location, posted_date |-> opp.posted_date,
                      url |-> opp.url, source |-> opp.source]]
        ELSE <<>>

\* what the notifiers of the cycle were called with: each one that is set
\* up is called once when the count grew, and not at all otherwise
notifications(table, baseline_count, email_notifier, webhook_notifier) ==
    LET grew == Len(table) > baseline_count
    IN  [email |-> IF grew /\ email_notifier
                   THEN <<new_opportunities(table, baseline_count)>> ELSE <<>>,
         webhook |-> IF grew /\ webhook_notifier
                     THEN <<new_opportunities(table, baseline_count)>> ELSE <<>>]

\* postings the scan of a cycle finds
FoundPostings ==
    {JobOpportunity("PhD", "ETH Zurich", "", 0, "", <<>>, u, "university_website") :
        u \in ReportUrls}

\* one update cycle: the scan saves what it found, or it raises before
\* anything is saved and the cycle ends in its except branch
RunFullUpdate ==
    \E found \in SeqsUpTo(FoundPostings, MaxFound), raised \in BOOLEAN,
       email_notifier \in BOOLEAN, webhook_notifier \in BOOLEAN :
        LET baseline_count == Len(job_opportunities)
        IN  /\ IF raised
               THEN /\ UNCHANGED storeVars
                    /\ result' = <<[raised |-> TRUE, email |-> <<>>, webhook |-> <<>>]>>
               ELSE /\ save_opportunities(found)
                    /\ result' = <<[raised |-> FALSE] @@
                                   notifications(SaveLoop(job_opportunities, found),
                                                 baseline_count, email_notifier,
                                                 webhook_notifier)>>
            /\ fetched' = <<found>>
            /\ UNCHANGED <<worldVars, scanVars, runnerVars>>

NextNotify == RunFullUpdate

SpecNotify == InitStore /\ [][NextNotify]_vars

----------------------------------------------------------------------------
(* HealthChecker: the three checks and the overall status, of a store that *)
(* is written while days pass                                              *)

Checks == {"database", "data_freshness", "websites"}

\* the tables init_database creates and _check_database_health asks for
RequiredTables == {"job_opportunities", "website_monitoring", "professors"}

\* the windows of the checks, in days
FreshDays == 7

MonitoringDays == 1

\* _check_database_health: raised says that the connection or a query raised
check_database_health(tables, raised) ==
    IF raised THEN [status |-> "unhealthy"]
    ELSE IF RequiredTables \ tables # {} THEN [status |-> "unhealthy"]
    ELSE [status |-> "healthy"]

\* _check_data_freshness: MAX(posted_date) of the postings of the last 7
\* days, then MAX(last_checked) of the health records of the last day
check_data_freshness(table, monitoring, now, raised) ==
    IF raised THEN [status |-> "unhealthy"]
    ELSE IF {i \in 1..Len(table) : table[i].posted_date >= now - FreshDays} = {}
         THEN [status |-> "degraded"]
    ELSE IF {i \in 1..Len(monitoring) :
                monitoring[i].last_checked >= now - MonitoringDays} = {}
         THEN [status |-> "degraded"]
    ELSE [status |-> "healthy"]

\* _check_website_health: the share of the health records of the last day
\* that are accessible; accessible / total < 0.8 is 5 * accessible < 4 * total
check_website_health(monitoring, now, raised) ==
    LET recent == {i \in 1..Len(monitoring) :
                      monitoring[i].last_checked >= now - MonitoringDays}
        total == Cardinality(recent)
        accessible == Cardinality({i \in recent : monitoring[i].accessible})
    IN  IF raised THEN [status |-> "unhealthy"]
        ELSE IF total = 0 THEN [status |-> "unhealthy"]
        ELSE IF 5 * accessible < 4 * total THEN [status |-> "degraded"]
        ELSE [status |-> "healthy"]

\* check_system_health: raised[c] says that check c ran into an exception
check_system_health(table, monitoring, now, tables, raised) ==
    LET checks == [c \in Checks |->
                      CASE c = "database" -> check_database_health(tables, raised[c])
                        [] c = "data_freshness" ->
                               check_data_freshness(table, monitoring, now, raised[c])
                        [] c = "websites" -> check_website_health(monitoring, now, raised[c])]
        failed_checks == {c \in Checks : checks[c].status # "healthy"}
    IN  [overall |-> IF failed_checks = {} THEN "healthy"
                     ELSE IF Cardinality(failed_checks) = 1 THEN "degraded"
                     ELSE "unhealthy",
         checks |-> checks]

\* a scan finds one posting today and saves it
SaveFoundToday ==
    /\ save_opportunities(<<JobOpportunity("PhD", "ETH Zurich", "", today, "", <<>>,
                                           "https://jobs.ethz.ch/p1", "university_website")>>)
    /\ result' = <<>>
    /\ UNCHANGED <<fetched, worldVars, scanVars, runnerVars>>

\* the health record of a site tested today
TestedToday(url, accessible) ==
    [url |-> url, accessible |-> accessible,
     response_time |-> IF accessible THEN "0.25" ELSE NULL,
     status_code |-> IF accessible THEN "200" ELSE NULL,
     has_job_section |-> accessible, last_checked |-> today]

\* test_all_websites: every site is tested today and its record is saved
SaveTestsToday ==
    /\ \E first \in BOOLEAN, second \in BOOLEAN :
          LET r1 == TestedToday("https://jobs.ethz.ch/p1", first)
              r2 == TestedToday("https://careers.cern/p1", second)
          IN  /\ website_monitoring' =
                     InsertOrReplace(InsertOrReplace(website_monitoring, r1), r2)
              /\ lastCall' = [op |-> "save_website_test",
                              deleted |-> Range(website_monitoring)]
              /\ latestTest' = [latestTest EXCEPT ![r1.url] = <<r1>>, ![r2.url] = <<r2>>]
    /\ result' = <<>>
    /\ UNCHANGED <<job_opportunities, latestPosting, fetched, worldVars, scanVars, runnerVars>>

\* a day or a week passes
DaysPassUnchecked ==
    /\ \E d \in {MonitoringDays, FreshDays} :
          /\ today + d <= MaxHealthDay
          /\ today' = today + d
    /\ result' = <<>>
    /\ UNCHANGED <<storeVars, fetched, web, linkedin, scanVars, runnerVars>>

CallCheckSystemHealth ==
    /\ \E raised \in [Checks -> BOOLEAN] :
          result' = <<check_system_health(job_opportunities, website_monitoring, today,
                                          RequiredTables, raised)>>
    /\ UNCHANGED <<storeVars, fetched, worldVars, scanVars, runnerVars>>

NextHealth == SaveFoundToday \/ SaveTestsToday \/ DaysPassUnchecked \/ CallCheckSystemHealth

SpecHealth == InitStore /\ [][NextHealth]_vars

----------------------------------------------------------------------------
(* BackupManager: backups are made one after the other.  A file of the     *)
(* backup directory is its name, which is the second it was made in, and   *)
(* its ctime, which is the number of the backup that wrote it.             *)

\* _cleanup_old_backups(keep_count = 10)
KeepCount == 10

RECURSIVE NewestFirst(_)
\* backup_files.sort(key=lambda x: x[1], reverse=True)
NewestFirst(files) ==
    IF files = {} THEN <<>>
    ELSE LET newest == CHOOSE f \in files : \A g \in files : g.ctime <= f.ctime
         IN  <<newest>> \o NewestFirst(files \ {newest})

RECURSIVE OldestFirst(_)
OldestFirst(files) ==
    IF files = {} THEN <<>>
    ELSE LET oldest == CHOOSE f \in files : \A g \in files : f.ctime <= g.ctime
         IN  <<oldest>> \o OldestFirst(files \ {oldest})

\* mutant: the files are sorted oldest first
cleanup_old_backups_OldestFirst(files, keep_count, fault) ==
    LET backup_files == OldestFirst(files)
        old == SubSeq(backup_files, keep_count + 1, Len(backup_files))
        removed == IF fault = 0 \/ fault > Len(old) THEN Range(old)
                   ELSE Range(Prefix(old, fault - 1))
    IN  files \ removed

\* _cleanup_old_backups: the files after the keep_count newest are removed
\* one by one; when the os.remove number fault raises, the exception is
\* logged and the files not yet removed stay (fault = 0: none raises)
cleanup_old_backups(files, keep_count, fault) ==
    LET backup_files == NewestFirst(files)
        old == SubSeq(backup_files, keep_count + 1, Len(backup_files))
        removed == IF fault = 0 \/ fault > Len(old) THEN Range(old)
                   ELSE Range(Prefix(old, fault - 1))
    IN  files \ removed

\* whether the cleanup ran into the exception
cleanup_failed(files, keep_count, fault) ==
    fault # 0 /\ fault <= Cardinality(files) - keep_count

\* the directory after source.backup(backup) wrote the file of this second:
\* a backup made in the same second as an earlier one has its name and
\* overwrites it
Written(files, timestamp, ctime) ==
    {f \in files : f.timestamp # timestamp} \cup {[timestamp |-> timestamp, ctime |-> ctime]}

\* the number of backups made so far
Made(files) == IF files = {} THEN 0 ELSE NewestFirst(files)[1].ctime

\* create_backup: in the second of the last backup or in a later one; the
\* backup is written and the old ones are cleaned up, or the backup raises
\* before a file is written
CallCreateBackup ==
    /\ Made(backup_dir) < MaxBackups
    /\ \E later \in BOOLEAN, fault \in 0..2, raised \in BOOLEAN :
          LET timestamp == IF backup_dir = {} THEN 1
                           ELSE NewestFirst(backup_dir)[1].timestamp
                                    + (IF later THEN 1 ELSE 0)
              written == Written(backup_dir, timestamp, Made(backup_dir) + 1)
          IN  IF raised
              THEN /\ backup_dir' = backup_dir
                   /\ result' = <<[raised |-> TRUE, backup_path |-> timestamp,
                                   cleanup_failed |-> FALSE]>>
              ELSE /\ backup_dir' = cleanup_old_backups(written, KeepCount, fault)
                   /\ result' = <<[raised |-> FALSE, backup_path |-> timestamp,
                                   cleanup_failed |->
                                       cleanup_failed(written, KeepCount, fault)]>>
    /\ UNCHANGED <<storeVars, fetched, worldVars, scanVars, performance_logs>>

NextBackup == CallCreateBackup

SpecBackup == InitStore /\ [][NextBackup]_vars

----------------------------------------------------------------------------
(* EnhancedRunner.run_with_monitoring: operations are run one after the    *)
(* other and logged to performance_logs                                    *)

\* log_operation: INSERT INTO performance_logs (timestamp, operation,
\* duration_seconds, success, error_message, metadata); the columns that
\* hold the clock and the NULL metadata are left out
log_operation(logs, operation, success, error) ==
    Append(logs, [operation |-> operation, success |-> success, error_message |-> error])

\* what the wrapped operation does: it returns a value, it raises an
\* Exception, or it raises a BaseException that is no Exception
Outcomes ==
    {[raises |-> NULL, value |-> v] : v \in {"data/backups/backup.db", NULL}} \cup
    {[raises |-> "Exception", value |-> "database is locked"],
     [raises |-> "KeyboardInterrupt", value |-> ""],
     [raises |-> "SystemExit", value |-> "1"]}

\* what the caller gets when log_operation raises in the finally block
LogFailure == [raises |-> "Exception", value |-> "no such table: performance_logs"]

\* mutant: the record is written after the try statement, not in finally
run_with_monitoring_LogAfterTry(logs, operation_name, outcome, log_raises) ==
    IF outcome.raises # NULL THEN [performance_logs |-> logs, outcome |-> outcome]
    ELSE IF log_raises THEN [performance_logs |-> logs, outcome |-> LogFailure]
    ELSE [performance_logs |-> log_operation(logs, operation_name, TRUE, NULL),
          outcome |-> outcome]

\* run_with_monitoring: success and error_message start as False and None;
\* a return sets success, except Exception sets error_message to str(e) and
\* raises again, finally logs; the caller gets the value or the exception,
\* or the exception of log_operation when that raises
run_with_monitoring(logs, operation_name, outcome, log_raises) ==
    LET success == outcome.raises = NULL
        error_message == IF outcome.raises = "Exception" THEN outcome.value ELSE NULL
    IN  IF log_raises THEN [performance_logs |-> logs, outcome |-> LogFailure]
        ELSE [performance_logs |->
                  log_operation(logs, operation_name, success, error_message),
              outcome |-> outcome]

\* the names the runner monitors operations under
OperationNames == {"database_backup", "full_scan"}

CallRunWithMonitoring ==
    /\ Len(performance_logs) < MaxLogs
    /\ \E operation_name \in OperationNames, outcome \in Outcomes, log_raises \in BOOLEAN :
          LET run == run_with_monitoring(performance_logs, operation_name, outcome,
                                         log_raises)
          IN  /\ performance_logs' = run.performance_logs
              /\ fetched' = <<[operation_name |-> operation_name, outcome |-> outcome,
                               log_raises |-> log_raises]>>
              /\ result' = <<run.outcome>>
    /\ UNCHANGED <<storeVars, worldVars, scanVars, backup_dir>>

NextMonitored == CallRunWithMonitoring

SpecMonitored == InitStore /\ [][NextMonitored]_vars

----------------------------------------------------------------------------
(* EnhancedAcademicTracker: the full scan, one loop iteration per step *)

\* the first universities of the tracker's table
universities ==
    <<[name |-> "Paul Scherrer Institute", url |-> PsiUrl],
      [name |-> "ETH Zurich", url |-> "https://jobs.ethz.ch/"],
      [name |-> "CERN", url |-> "https://careers.cern/"]>>

\* what a GET of url answers; a url nothing is known about does not answer
Get(url) == IF url \in DOMAIN web THEN web[url] ELSE Failure

\* What the sites can answer
PsiPages ==
    {Failure, Hang,
     Response("200", "0.25", TRUE, "Open Jobs",
              <<[href |-> "/job-opportunities/101", text |-> " PhD Student Position "],
                [href |-> "/job-opportunities/new", text |-> "PhD"],
                [href |-> "/job-opportunities/102", text |-> "Technician"]>>)}

EthPages ==
    {Response("404", "0.25", TRUE, "Open Jobs", <<[href |-> "/p1", text |-> "Open Jobs"]>>),
     Response("200", "0.25", TRUE, "About Us",
              <<[href |-> "/p1", text |-> "Open Jobs"],
                [href |-> "/p2", text |-> "Graduate Student"],
                [href |-> "/p3", text |-> "About Us"]>>),
     Response("200", "0.25", TRUE, "", <<[href |-> "/p1", text |-> "CAREERS"]>>)}

CernPages ==
    {Failure, Hang,
     Response("200", "0.25", TRUE, "", <<[href |-> "/p1", text |-> "PhD"]>>)}

EthJobPages1 ==
    {Failure, Hang,
     Response("200", "0.25", TRUE, "",
              <<[href |-> "/p4", text |-> "PhD Student Position"],
                [href |-> "/p5", text |-> "Technician"]>>)}

EthJobPages2 ==
    {Response("404", "0.25", TRUE, "", <<>>),
     Response("200", "0.25", TRUE, "",
              <<[href |-> "/p4", text |-> "Research Assistant"]>>)}

CernJobPages1 ==
    {Response("200", "0.25", TRUE, "",
              <<[href |-> "/p4", text |-> "PhD"], [href |-> "", text |-> "PhD"]>>)}

Card(complete, title, href, readable, description) ==
    [complete |-> complete, title |-> title, company |-> "KU Leuven", location |-> "",
     href |-> href, readable |-> readable, description |-> description]

Search(raised, cards) == [raised |-> raised, cards |-> cards]

\* What LinkedIn can show for the two first keywords
LinkedInWorlds ==
    {[driver |-> FALSE, searches |-> <<>>],
     [driver |-> TRUE,
      searches |-> <<Search(FALSE, <<Card(TRUE, "PhD", "https://www.linkedin.com/jobs/view/1",
                                           TRUE, "We want experience")>>),
                     Search(FALSE, <<Card(FALSE, "", NULL, FALSE, ""),
                                     Card(TRUE, "PhD Student Position",
                                          "https://www.linkedin.com/jobs/view/1",
                                          FALSE, "")>>)>>],
     [driver |-> TRUE,
      searches |-> <<Search(FALSE, <<Card(TRUE, "PhD", NULL, TRUE, "Doctorate and experience")>>),
                     Search(TRUE, <<>>)>>]}

Worlds ==
    {(PsiUrl :> psi) @@ ("https://jobs.ethz.ch/" :> eth) @@ ("https://careers.cern/" :> cern)
       @@ ("https://jobs.ethz.ch/p1" :> e1) @@ ("https://jobs.ethz.ch/p2" :> e2)
       @@ ("https://careers.cern/p1" :> c1) :
        psi \in PsiPages, eth \in EthPages, cern \in CernPages,
        e1 \in EthJobPages1, e2 \in EthJobPages2, c1 \in CernJobPages1}

\* EnhancedAcademicTracker.__init__, in some world
Init ==
    /\ EmptyStore /\ NoCall /\ NoScan /\ NoRunner
    /\ web \in Worlds
    /\ linkedin \in LinkedInWorlds
    /\ today = 0

\* the next day begins
Tick ==
    /\ pc = "idle"
    /\ today < MaxDay
    /\ today' = today + 1
    /\ UNCHANGED <<storeVars, callVars, web, linkedin, scanVars, runnerVars>>

\* the timeout each operation hands to session.get, NULL when it hands none
Timeouts ==
    [test_website_accessibility |-> "10", find_job_pages |-> "10",
     scrape_psi_jobs |-> NULL, scrape_generic_university |-> NULL]

\* requests waits for the answer as long as the timeout says, for ever
\* without one
WaitsForever(url, timeout) == Get(url).hangs /\ timeout = NULL

\* the fetch the scan issues next never returns
FetchWaits ==
    \/ /\ pc = "test_all_websites"
       /\ WaitsForever(universities[site].url, Timeouts.test_website_accessibility)
    \/ /\ pc = "scrape_psi_jobs"
       /\ WaitsForever(PsiUrl, Timeouts.scrape_psi_jobs)
    \/ /\ pc = "find_job_pages"
       /\ universities[site].name # "Paul Scherrer Institute"
       /\ WaitsForever(universities[site].url, Timeouts.find_job_pages)
    \/ /\ pc = "scrape_generic_university"
       /\ WaitsForever(Head(job_pages), Timeouts.scrape_generic_university)

\* the scan is blocked in session.get and stays there
WaitForever ==
    /\ FetchWaits
    /\ pc' = "waiting"
    /\ UNCHANGED <<storeVars, callVars, worldVars, site, job_pages, all_opportunities,
                   scanLog, runnerVars>>

\* run_full_scan is called
StartScan ==
    /\ pc = "idle"
    /\ Len(scanLog) < MaxScans
    /\ pc' = "test_all_websites"
    /\ site' = 1
    /\ UNCHANGED <<storeVars, callVars, worldVars, job_pages, all_opportunities, scanLog, runnerVars>>

\* mutant: a site whose fetch failed gets no record
TestWebsite_SkipFailed ==
    /\ pc = "test_all_websites" /\ ~FetchWaits
    /\ LET url == universities[site].url
       IN  IF Get(url).raised
           THEN UNCHANGED storeVars
           ELSE save_website_test(test_website_accessibility(url, Get(url), today))
    /\ site' = site + 1
    /\ pc' = IF site = Len(universities) THEN "scrape_linkedin_jobs" ELSE pc
    /\ UNCHANGED <<callVars, worldVars, job_pages, all_opportunities, scanLog, runnerVars>>

\* test_all_websites: one university is tested and its record saved
TestWebsite ==
    /\ pc = "test_all_websites" /\ ~FetchWaits
    /\ LET url == universities[site].url
       IN  save_website_test(test_website_accessibility(url, Get(url), today))
    /\ site' = site + 1
    /\ pc' = IF site = Len(universities) THEN "scrape_linkedin_jobs" ELSE pc
    /\ UNCHANGED <<callVars, worldVars, job_pages, all_opportunities, scanLog, runnerVars>>

\* scrape_linkedin_jobs: the search and the save of what it found
ScrapeLinkedInJobs ==
    /\ pc = "scrape_linkedin_jobs"
    /\ save_opportunities(search_phd_positions(linkedin.driver, linkedin.searches, today))
    /\ pc' = "scrape_psi_jobs"
    /\ UNCHANGED <<callVars, worldVars, site, job_pages, all_opportunities, scanLog, runnerVars>>

\* mutant: the postings of PSI are saved as soon as they are extracted
ScrapePsiJobs_SaveNow ==
    /\ pc = "scrape_psi_jobs" /\ ~FetchWaits
    /\ all_opportunities' = scrape_psi_jobs(Get(PsiUrl), today)
    /\ save_opportunities(scrape_psi_jobs(Get(PsiUrl), today))
    /\ site' = 1
    /\ pc' = "find_job_pages"
    /\ UNCHANGED <<callVars, worldVars, job_pages, scanLog, runnerVars>>

\* scrape_university_jobs: the special handling for PSI
ScrapePsiJobs ==
    /\ pc = "scrape_psi_jobs" /\ ~FetchWaits
    /\ all_opportunities' = scrape_psi_jobs(Get(PsiUrl), today)
    /\ site' = 1
    /\ pc' = "find_job_pages"
    /\ UNCHANGED <<storeVars, callVars, worldVars, job_pages, scanLog, runnerVars>>

AfterSite(i) == IF i = Len(universities) THEN "save_opportunities" ELSE "find_job_pages"

\* scrape_university_jobs: the job pages of the next university are looked
\* up; PSI is passed over
FindJobPages ==
    /\ pc = "find_job_pages" /\ ~FetchWaits
    /\ LET u == universities[site]
           pages == IF u.name = "Paul Scherrer Institute" THEN <<>>
                    ELSE find_job_pages(u.url, Get(u.url))
       IN  /\ job_pages' = pages
           /\ IF pages = <<>>
              THEN /\ pc' = AfterSite(site)
                   /\ site' = IF site = Len(universities) THEN site ELSE site + 1
              ELSE /\ pc' = "scrape_generic_university"
                   /\ site' = site
    /\ UNCHANGED <<storeVars, callVars, worldVars, all_opportunities, scanLog, runnerVars>>

\* mutant: the postings of a job page are saved as soon as they are extracted
ScrapeJobPage_SaveNow ==
    /\ pc = "scrape_generic_university" /\ ~FetchWaits
    /\ LET job_page == Head(job_pages)
           opportunities == scrape_generic_university(universities[site].name, job_page,
                                                      Get(job_page), today)
       IN  /\ all_opportunities' = all_opportunities \o opportunities
           /\ save_opportunities(opportunities)
    /\ job_pages' = Tail(job_pages)
    /\ IF Tail(job_pages) = <<>>
       THEN /\ pc' = AfterSite(site)
            /\ site' = IF site = Len(universities) THEN site ELSE site + 1
       ELSE UNCHANGED <<pc, site>>
    /\ UNCHANGED <<callVars, worldVars, scanLog, runnerVars>>

\* scrape_university_jobs: one job page of the university is scraped
ScrapeJobPage ==
    /\ pc = "scrape_generic_university" /\ ~FetchWaits
    /\ LET job_page == Head(job_pages)
       IN  all_opportunities' =
               all_opportunities \o
               scrape_generic_university(universities[site].name, job_page, Get(job_page), today)
    /\ job_pages' = Tail(job_pages)
    /\ IF Tail(job_pages) = <<>>
       THEN /\ pc' = AfterSite(site)
            /\ site' = IF site = Len(universities) THEN site ELSE site + 1
       ELSE UNCHANGED <<pc, site>>
    /\ UNCHANGED <<storeVars, callVars, worldVars, scanLog, runnerVars>>

\* scrape_university_jobs: everything collected is saved, the scan is over
SaveUniversityJobs ==
    /\ pc = "save_opportunities"
    /\ save_opportunities(all_opportunities)
    /\ all_opportunities' = <<>>
    /\ scanLog' = Append(scanLog, [jobs |-> Len(job_opportunities'),
                                   sites |-> Len(website_monitoring')])
    /\ pc' = "idle"
    /\ UNCHANGED <<callVars, worldVars, site, job_pages, runnerVars>>

\* where a scan can be when it is aborted
AbortedIn ==
    [p \in {"test_all_websites", "scrape_linkedin_jobs", "scrape_psi_jobs",
            "find_job_pages", "scrape_generic_university", "save_opportunities"} |->
        CASE p = "test_all_websites" -> "aborted in test_all_websites"
          [] p = "scrape_linkedin_jobs" -> "aborted in scrape_linkedin_jobs"
          [] p = "scrape_psi_jobs" -> "aborted in scrape_psi_jobs"
          [] p = "find_job_pages" -> "aborted in find_job_pages"
          [] p = "scrape_generic_university" -> "aborted in scrape_generic_university"
          [] p = "save_opportunities" -> "aborted in save_opportunities"]

\* run_full_scan is left by an exception no operation catches (the user
\* interrupts the run, a save raises): main logs it and the run ends.  The
\* store is what was committed; the scan variables show what the scan held
\* in memory.
Abort ==
    /\ pc \in DOMAIN AbortedIn
    /\ pc' = AbortedIn[pc]
    /\ UNCHANGED <<storeVars, callVars, worldVars, site, job_pages, all_opportunities,
                   scanLog, runnerVars>>

Next ==
    \/ Tick
    \/ StartScan
    \/ TestWebsite
    \/ ScrapeLinkedInJobs
    \/ ScrapePsiJobs
    \/ FindJobPages
    \/ ScrapeJobPage
    \/ SaveUniversityJobs
    \/ Abort
    \/ WaitForever

Spec == Init /\ [][Next]_vars

----------------------------------------------------------------------------
(* Claims about the persistence layer *)

RowsFor(table, u) == SelectRows(table, [r \in Range(table) |-> r.url = u])

\* C1: after save_opportunities stored a posting for url u over an earlier
\* posting for u, job_opportunities holds exactly one row for u and that row
\* carries every field of the later posting (last writer wins).
C1_LastWriterWins ==
    \A u \in StoreUrls : RowsFor(job_opportunities, u) = latestPosting[u]

\* a call has replaced a stored row by a posting with the same url and another title
C1_Witness ==
    /\ lastCall.op = "save_opportunities"
    /\ \E old \in lastCall.deleted :
          /\ Len(RowsFor(job_opportunities, old.url)) = 1
          /\ RowsFor(job_opportunities, old.url)[1].title # old.title

\* C2: no two rows of job_opportunities have the same url, whatever the
\* scans have found, LinkedIn included.
C2_UrlUnique ==
    \A i, j \in 1..Len(job_opportunities) :
        job_opportunities[i].url = job_opportunities[j].url => i = j

\* C3: website_monitoring holds at most one record per url, and it is the
\* argument of the most recent save_website_test call for that url.
C3_LatestObservationWins ==
    \A u \in StoreUrls : RowsFor(website_monitoring, u) = latestTest[u]

\* a health record has been replaced by a different observation of the same url
C3_Witness ==
    /\ lastCall.op = "save_website_test"
    /\ \E old \in lastCall.deleted :
          /\ Len(RowsFor(website_monitoring, old.url)) = 1
          /\ RowsFor(website_monitoring, old.url)[1] # old

\* C4: a full scan that follows a full scan against the same world leaves
\* the row counts of job_opportunities and website_monitoring as the first
\* scan left them.
C4_RescanKeepsCounts ==
    \A k \in 2..Len(scanLog) : scanLog[k] = scanLog[k - 1]

----------------------------------------------------------------------------
(* Claims about the page classification *)

\* C5: for every completed fetch the record has accessible = TRUE exactly
\* when the status code is 200, and the status code is recorded as received.
C5_AccessibleIff200 ==
    \A i \in 1..Len(result) :
        ~fetched[i].raised =>
            /\ result[i].accessible = (fetched[i].status_code = "200")
            /\ result[i].status_code = fetched[i].status_code

\* a 404 response has been classified
C5_Witness ==
    /\ Len(result) = 1
    /\ ~fetched[1].raised /\ fetched[1].status_code = "404"
    /\ ~result[1].accessible

\* C6: when the GET raises, the record returned has accessible = FALSE,
\* response_time = NULL, status_code = NULL and has_job_section = FALSE.
C6_FailureRecord ==
    \A i \in 1..Len(result) :
        fetched[i].raised =>
            /\ result[i].accessible = FALSE
            /\ result[i].response_time = NULL
            /\ result[i].status_code = NULL
            /\ result[i].has_job_section = FALSE

\* a failed fetch has been classified
C6_Witness == Len(result) = 1 /\ fetched[1].raised

\* C10 as stated: has_job_section is TRUE exactly when the lowercased text of
\* the fetched page contains a job keyword, whatever the status code.
C10_AnyStatus ==
    \A i \in 1..Len(result) :
        (~fetched[i].raised /\ fetched[i].parses) =>
            (result[i].has_job_section
                <=> \E k \in 1..Len(job_keywords) :
                        Contains(lower(get_text(fetched[i])), Chars[job_keywords[k]]))

\* C10 amended: has_job_section is TRUE exactly when the status code is 200,
\* the page text could be read and its lowercased text contains a job
\* keyword; for every other status code it is FALSE.
C10_OnlyWhenAccessible ==
    \A i \in 1..Len(result) :
        ~fetched[i].raised =>
            (result[i].has_job_section
                <=> /\ fetched[i].status_code = "200"
                    /\ fetched[i].parses
                    /\ \E k \in 1..Len(job_keywords) :
                          Contains(lower(get_text(fetched[i])), Chars[job_keywords[k]]))

\* a 200 page with a keyword split between text and anchor ("Jo" + "b") has
\* been classified as having a job section
C10_Witness ==
    /\ Len(result) = 1
    /\ fetched[1].status_code = "200" /\ fetched[1].text = "Jo"
    /\ result[1].has_job_section

\* C11: in every health record the response time is present whenever the
\* request completed, whatever the status code, and is null only when the
\* fetch itself failed; it is null exactly when the status code is null.
C11_ResponseTimeIffStatus ==
    \A i \in 1..Len(result) :
        /\ ~fetched[i].raised => result[i].response_time = fetched[i].elapsed
        /\ ~fetched[i].raised => result[i].response_time # NULL
        /\ fetched[i].raised => result[i].response_time = NULL
        /\ result[i].response_time = NULL <=> result[i].status_code = NULL

\* a completed request that answered 404 has been recorded with its
\* response time
C11_Witness ==
    /\ Len(result) = 1
    /\ ~fetched[1].raised /\ fetched[1].status_code = "404"
    /\ result[1].status_code = "404"
    /\ result[1].response_time = "0.25"

----------------------------------------------------------------------------
(* Claims about the link extraction *)

\* C7: find_job_pages never returns more than 5 urls.
C7_AtMostFive == \A i \in 1..Len(result) : Len(result[i]) <= 5

\* a page with more than 5 distinct qualifying links has been searched
C7_Witness ==
    /\ Len(result) = 1
    /\ Cardinality({a.href : a \in {b \in Range(fetched[1].anchors) : b.text = "Open Jobs"}}) > 5
    /\ Len(result[1]) = 5

\* the anchors that qualify: an href, and a text that matches the vocabulary
Qualifies(a) ==
    /\ a.href # NULL
    /\ \E k \in 1..Len(job_patterns) :
          Contains(lower(Chars[a.text]), Chars[job_patterns[k]])

RECURSIVE FirstDistinct(_, _, _)
\* the first n distinct resolved urls of the qualifying anchors whose href
\* resolves, in page order
FirstDistinct(anchors, seen, n) ==
    IF anchors = <<>> \/ n = 0 THEN <<>>
    ELSE LET a == Head(anchors)
         IN  IF Qualifies(a) /\ a.href # BadHref /\ urljoin(LinkBase, a.href) \notin seen
             THEN <<urljoin(LinkBase, a.href)>>
                    \o FirstDistinct(Tail(anchors), seen \cup {urljoin(LinkBase, a.href)}, n - 1)
             ELSE FirstDistinct(Tail(anchors), seen, n)

\* C8: for a page that was fetched and parsed, find_job_pages returns exactly
\* the first 5 distinct qualifying resolved urls in the order of their first
\* occurrence, none of them twice.
C8_FirstFiveDistinct ==
    \A i \in 1..Len(result) :
        (~fetched[i].raised /\ fetched[i].status_code = "200" /\ fetched[i].parses) =>
            result[i] = FirstDistinct(fetched[i].anchors, {}, 5)

\* C9: when no anchor text of the page matches a term of the vocabulary,
\* find_job_pages returns the empty sequence.
C9_NoMatchNoLinks ==
    \A i \in 1..Len(result) :
        (\A k \in 1..Len(fetched[i].anchors) :
            \A w \in 1..Len(job_patterns) :
                ~Contains(lower(Chars[fetched[i].anchors[k].text]), Chars[job_patterns[w]]))
            => result[i] = <<>>

\* a parsed 200 page whose anchors all have an href and none a matching text
\* has been searched
C9_Witness ==
    /\ Len(result) = 1
    /\ ~fetched[1].raised /\ fetched[1].status_code = "200" /\ fetched[1].parses
    /\ Len(fetched[1].anchors) >= 2
    /\ \A k \in 1..Len(fetched[1].anchors) : fetched[1].anchors[k].text = "About Us"
    /\ result[1] = <<>>

----------------------------------------------------------------------------
(* Claims about the posting extraction *)

\* the page under test is a readable 200 page with exactly these elements
PageIs(elements) ==
    /\ Len(fetched) = 1
    /\ ~fetched[1].raised /\ fetched[1].status_code = "200" /\ fetched[1].parses
    /\ fetched[1].anchors = elements

Called(op) == lastCall.op = op /\ Len(result) = 1

\* C12: a page whose only anchor is <a href="/jobs/42">PhD Student
\* Position</a> gives exactly one candidate from the pattern-ID strategy,
\* with the url of the base host followed by /jobs/42 and source
\* university_website.
C12_JobsPathOneCandidate ==
    (/\ Called("scrape_psi_jobs")
     /\ PageIs(<<[name |-> "a", href |-> "/jobs/42", text |-> "PhD Student Position"]>>))
        => /\ Len(result[1]) = 1
           /\ result[1][1].url = urljoin(PsiUrl, "/jobs/42")
           /\ result[1][1].source = "university_website"

\* C12 amended: on a page with a single anchor, scrape_psi_jobs gives exactly
\* one candidate when the href contains /job-opportunities/ followed by a
\* digit and the text contains phd or student, with the trimmed text as
\* title, the href resolved against the PSI listing url as url and source
\* university_website; any other single anchor, /jobs/42 included, gives no
\* candidate.
C12_NumberedPathOneCandidate ==
    \A e \in ExtractElements :
        (Called("scrape_psi_jobs") /\ PageIs(<<e>>)) =>
            IF /\ e.name = "a" /\ e.href # NULL
               /\ \E d \in Digits :
                      Contains(Chars[e.href], Chars["/job-opportunities/"] \o <<d>>)
               /\ \/ Contains(lower(Chars[e.text]), Chars["phd"])
                  \/ Contains(lower(Chars[e.text]), Chars["student"])
            THEN /\ Len(result[1]) = 1
                 /\ result[1][1].title = strip(e.text)
                 /\ result[1][1].url = urljoin(PsiUrl, e.href)
                 /\ result[1][1].institution = "Paul Scherrer Institute"
                 /\ result[1][1].source = "university_website"
            ELSE result[1] = <<>>

\* the numbered listing /job-opportunities/101 has been extracted as the
\* one candidate of its page
C12_Witness ==
    /\ Called("scrape_psi_jobs")
    /\ PageIs(<<[name |-> "a", href |-> "/job-opportunities/101",
                 text |-> " PhD Student Position "]>>)
    /\ Len(result[1]) = 1
    /\ result[1][1].url = "https://www.psi.ch/job-opportunities/101"
    /\ result[1][1].title = "PhD Student Position"

\* the anchors of a page that carry a resolvable href and a keyword of the
\* phd vocabulary, in document order
MatchingAnchors(job_page_url, elements) ==
    SelectRows(elements,
               [e \in Range(elements) |->
                   /\ e.name = "a" /\ e.href # NULL /\ e.href # ""
                   /\ ~UrljoinRaises(job_page_url, e.href)
                   /\ \E k \in 1..Len(phd_keywords) :
                          Contains(lower(Chars[e.text]), Chars[phd_keywords[k]])])

\* C13: scrape_generic_university emits exactly one candidate for each anchor
\* that has an href and whose text contains a keyword of the phd vocabulary,
\* in document order and without de-duplication, with the trimmed text as
\* title and the resolved href as url, and nothing for any other element.
C13_OnePerMatchingAnchor ==
    (/\ Called("scrape_generic_university")
     /\ ~fetched[1].raised /\ fetched[1].status_code = "200" /\ fetched[1].parses)
        => LET expected == MatchingAnchors(ExtractPage, fetched[1].anchors)
           IN  /\ Len(result[1]) = Len(expected)
               /\ \A i \in 1..Len(expected) :
                      /\ result[1][i].title = strip(expected[i].text)
                      /\ result[1][i].url = urljoin(ExtractPage, expected[i].href)
                      /\ result[1][i].source = "university_website"

----------------------------------------------------------------------------
(* Claims about the report *)

\* the stored postings posted on the days that satisfy the condition
PostedOn(days) == {i \in 1..Len(job_opportunities) : job_opportunities[i].posted_date \in days}

\* C14: the recent count of get_data_summary is the total when every stored
\* posting is dated today, zero when every stored posting is dated 60 days
\* ago, and in general the number of postings dated within the last 30 days.
C14_RecentCount ==
    Len(result) = 1 =>
        /\ result[1].total_jobs = Len(job_opportunities)
        /\ PostedOn({today}) = DOMAIN job_opportunities
               => result[1].recent_jobs = result[1].total_jobs
        /\ PostedOn({today - 60}) = DOMAIN job_opportunities
               => result[1].recent_jobs = 0
        /\ result[1].recent_jobs = Cardinality(PostedOn((today - 30)..today))

\* the summary of a store with a posting dated 30 days ago and another dated
\* 60 days ago counts one of the two as recent
C14_Witness ==
    /\ Len(result) = 1
    /\ PostedOn({today - 30}) # {} /\ PostedOn({today - 60}) # {}
    /\ result[1].total_jobs = 2
    /\ result[1].recent_jobs = 1

----------------------------------------------------------------------------
(* Claims about batches and faults of the store *)

\* the batch of the last call and the row that failed
LastBatch == fetched[1].opportunities

\* C15: an integrity conflict on one posting of a batch does not reach the
\* caller of save_opportunities: the call returns normally, the posting is
\* skipped, and every other posting of the batch is stored (unless a later
\* posting of the batch replaced it).
C15_ConflictSkipped ==
    (Len(fetched) = 1 /\ fetched[1].fault = 0) =>
        /\ ~result[1].raised
        /\ \A i \in 1..Len(LastBatch) :
              IF LastBatch[i].title = NULL
              THEN LastBatch[i] \notin Range(job_opportunities)
              ELSE \/ LastBatch[i] \in Range(job_opportunities)
                   \/ \E j \in (i + 1)..Len(LastBatch) :
                         /\ LastBatch[j].url = LastBatch[i].url
                         /\ LastBatch[j].title # NULL

\* a batch whose first posting violates NOT NULL has been saved: the call
\* returned and the posting after it is stored
C15_Witness ==
    /\ Len(fetched) = 1 /\ fetched[1].fault = 0
    /\ Len(LastBatch) = 2
    /\ LastBatch[1].title = NULL /\ LastBatch[2].title # NULL
    /\ LastBatch[2] \in Range(job_opportunities)
    /\ ~result[1].raised

Urls(table) == {table[i].url : i \in 1..Len(table)}

\* C17: no call of save_opportunities, failing or not, removes a url from
\* job_opportunities or lowers the row count; a stored row that is gone was
\* replaced by a posting of the batch with its url.
C17_NeverDeletes ==
    [][/\ Urls(job_opportunities) \subseteq Urls(job_opportunities')
       /\ Len(job_opportunities) <= Len(job_opportunities')
       /\ \A r \in Range(job_opportunities) :
             \/ r \in Range(job_opportunities')
             \/ \E i \in 1..Len(fetched'[1].opportunities) :
                   /\ fetched'[1].opportunities[i].url = r.url
                   /\ \E q \in Range(job_opportunities') : q.url = r.url /\ q # r]_vars

\* a stored row has been replaced by a posting with its url, next to a row
\* that stayed
C17_Witness ==
    /\ lastCall.op = "save_opportunities" /\ lastCall.deleted # {}
    /\ Len(job_opportunities) = 2
    /\ \A r \in lastCall.deleted : r.url \in Urls(job_opportunities)

\* C20: when save_opportunities fails at posting k of a batch with a fault
\* that is not an integrity conflict, the postings before k are stored and
\* the postings from k on are not.
C20_PartialBatchStays ==
    [][fetched'[1].fault > 0 =>
          job_opportunities' = SaveLoop(job_opportunities,
                                        Prefix(fetched'[1].opportunities,
                                               fetched'[1].fault - 1))]_vars

\* C20 amended: when save_opportunities fails at posting k of a batch with a
\* fault that is not an integrity conflict, the exception reaches the caller
\* and job_opportunities is as it was before the call: the postings before k
\* are rolled back with the rest.
C20_BatchRolledBack ==
    [][fetched'[1].fault > 0 =>
          /\ result'[1].raised
          /\ job_opportunities' = job_opportunities]_vars

\* a batch failed at its second posting and its first posting, which no
\* constraint rejects, is not stored
C20_Witness ==
    /\ Len(fetched) = 1 /\ fetched[1].fault = 2
    /\ result[1].raised
    /\ LastBatch[1].title # NULL
    /\ \A r \in Range(job_opportunities) : r.url # LastBatch[1].url

----------------------------------------------------------------------------
(* Claims about faults during a scan *)

HealthRecords(url) == {r \in Range(website_monitoring) : r.url = url}

\* the fetch of url fails or does not answer 200
Faulty(url) == Get(url).raised \/ Get(url).status_code # "200" \/ ~Get(url).parses

\* the sites test_all_websites has tested in the running scan, or in a scan
\* before it
Tested ==
    IF pc \in {"test_all_websites", AbortedIn["test_all_websites"]} /\ scanLog = <<>>
    THEN 1..(site - 1)
    ELSE IF pc = "idle" /\ scanLog = <<>> THEN {} ELSE 1..Len(universities)

\* C16: a site whose fetch fails, answers another status than 200 or cannot
\* be parsed gives the default health record and no job pages or postings,
\* and the scan goes on: every site tested so far has its health record, all
\* of them once test_all_websites is over, and the postings of the pages of
\* every later site are collected.
C16_FaultsContained ==
    /\ \A i \in Tested :
          LET url == universities[i].url
          IN  /\ HealthRecords(url) # {}
              /\ Get(url).raised =>
                     \A r \in HealthRecords(url) :
                         ~r.accessible /\ r.status_code = NULL /\ r.response_time = NULL
              /\ ~Get(url).raised =>
                     \A r \in HealthRecords(url) : r.status_code = Get(url).status_code
    /\ \A i \in 1..Len(universities) :
          LET u == universities[i]
          IN  Faulty(u.url) =>
                 /\ find_job_pages(u.url, Get(u.url)) = <<>>
                 /\ scrape_generic_university(u.name, u.url, Get(u.url), today) = <<>>
                 /\ scrape_psi_jobs(Get(u.url), today) = <<>>
    /\ pc = "save_opportunities" =>
          \A i \in 2..Len(universities) :
              LET u == universities[i]
                  pages == find_job_pages(u.url, Get(u.url))
              IN  \A k \in 1..Len(pages) :
                      Range(scrape_generic_university(u.name, pages[k], Get(pages[k]), today))
                          \subseteq Range(all_opportunities)

\* the fetch of the first site raised and the second answered 404; all three
\* sites have their health record and the posting of the third is collected
C16_Witness ==
    /\ pc = "save_opportunities"
    /\ Get(universities[1].url).raised
    /\ Get(universities[2].url).status_code = "404"
    /\ \A i \in 1..Len(universities) : HealthRecords(universities[i].url) # {}
    /\ \E o \in Range(all_opportunities) : o.institution = "CERN"

----------------------------------------------------------------------------
(* Claims about the order of fetches and saves, and about aborted scans *)

\* the next step of the scan fetches from universities[site]
FetchesNext ==
    \/ pc \in {"test_all_websites", "scrape_generic_university"}
    \/ pc = "find_job_pages" /\ universities[site].name # "Paul Scherrer Institute"

\* the postings the scan holds that come from the sites before universities[site]
EarlierPostings == {o \in Range(all_opportunities) : o.institution # universities[site].name}

\* the sites the running scan has tested
TestedNow ==
    IF pc \in {"test_all_websites", AbortedIn["test_all_websites"]}
    THEN 1..(site - 1)
    ELSE IF pc = "idle" THEN {} ELSE 1..Len(universities)

TestedNowStored ==
    \A i \in TestedNow :
        \E r \in HealthRecords(universities[i].url) : r.last_checked = today

UniversityPhase == {"scrape_psi_jobs", "find_job_pages", "scrape_generic_university"}

\* C18: when a fetch for a site is issued, the results of the sites before it
\* are in the store: their health records and the postings extracted from
\* their pages.
C18_PersistedBeforeNextSite ==
    FetchesNext =>
        /\ TestedNowStored
        /\ EarlierPostings \subseteq Range(job_opportunities)

\* C18 amended: the health record of a site is stored before the next site is
\* tested; the postings extracted from the university sites are held in
\* memory while the other sites are fetched, no step before the final save
\* writes job_opportunities, and the final save stores a row for the url of
\* every collected posting.
C18_PostingsSavedAtEnd ==
    /\ [](FetchesNext => TestedNowStored)
    /\ [][/\ pc \in UniversityPhase => job_opportunities' = job_opportunities
          /\ (pc = "save_opportunities" /\ pc' = "idle") =>
                \A o \in Range(all_opportunities) :
                    \E r \in Range(job_opportunities') : r.url = o.url]_vars

\* the second site is about to be fetched while a posting of the first is
\* held in memory and not stored
C18_Witness ==
    /\ pc = "find_job_pages" /\ site = 2
    /\ \E o \in EarlierPostings :
          /\ o.institution = "Paul Scherrer Institute"
          /\ \A r \in Range(job_opportunities) : r.url # o.url

Aborted == {AbortedIn[p] : p \in DOMAIN AbortedIn}

\* C19: after a scan aborted, the rows of the sites it processed before are
\* in the store: their health records and their extracted postings.
C19_EarlierRowsStored ==
    pc \in Aborted =>
        /\ TestedNowStored
        /\ EarlierPostings \subseteq Range(job_opportunities)

\* C19 amended: an abort leaves both tables as they were when the fault
\* occurred; the health records of the sites tested before are stored; the
\* postings extracted from university sites are not: in a first scan
\* aborted before the final save every stored posting comes from LinkedIn.
C19_CommittedRowsStay ==
    /\ [](pc \in Aborted => TestedNowStored)
    /\ []((pc \in {AbortedIn[p] : p \in UniversityPhase \cup {"save_opportunities"}}
             /\ scanLog = <<>>)
            => \A r \in Range(job_opportunities) : r.source = "linkedin")
    /\ [][pc' \in Aborted =>
              /\ job_opportunities' = job_opportunities
              /\ website_monitoring' = website_monitoring]_vars

\* a first scan aborted while it worked on the second university: the health
\* records are stored, the posting of the first university is lost
C19_Witness ==
    /\ pc = AbortedIn["find_job_pages"] /\ site = 2 /\ scanLog = <<>>
    /\ \A i \in 1..Len(universities) : HealthRecords(universities[i].url) # {}
    /\ \E o \in EarlierPostings : \A r \in Range(job_opportunities) : r.url # o.url

----------------------------------------------------------------------------
(* Claims about timeouts *)

\* C21: every fetch of the scan has a timeout, so that no scan waits for ever
\* for a server that accepts the connection and never answers: the fetch
\* ends as a failure.
C21_NoUnboundedWait == pc # "waiting"

----------------------------------------------------------------------------
(* Claims about the limit of scrape_psi_jobs *)

\* the anchor at position i of the page is a numbered listing
RawListing(i) == fetched[1].anchors[i].href \in {"/job-opportunities/101", "/job-opportunities/102"}

\* the positions of the first 10 numbered listings of the page
FirstTenRaw ==
    {i \in 1..Len(fetched[1].anchors) :
        RawListing(i) /\ Cardinality({j \in 1..i : RawListing(j)}) <= 10}

HasPhdOrStudent(text) ==
    \/ Contains(lower(Chars[text]), Chars["phd"])
    \/ Contains(lower(Chars[text]), Chars["student"])

\* C22: scrape_psi_jobs looks at the first 10 anchors whose href matches the
\* listing pattern and emits exactly those of them whose text contains phd or
\* student: at most 10 candidates, none for a listing at raw position 11 or
\* later.
C22_CapBeforeFilter ==
    (Called("scrape_psi_jobs") /\ Len(fetched) = 1) =>
        LET kept == {i \in FirstTenRaw : HasPhdOrStudent(fetched[1].anchors[i].text)}
        IN  /\ Len(result[1]) <= 10
            /\ Len(result[1]) = Cardinality(kept)
            /\ \A k \in 1..Len(result[1]) :
                  \E i \in kept :
                      /\ Cardinality({j \in kept : j <= i}) = k
                      /\ result[1][k].title = strip(fetched[1].anchors[i].text)
                      /\ result[1][k].url = urljoin(PsiUrl, fetched[1].anchors[i].href)

\* a page with 11 listings, the 11th a PhD listing, one of the first 10 not:
\* 9 candidates are emitted
C22_Witness ==
    /\ Called("scrape_psi_jobs")
    /\ Len(fetched[1].anchors) = 11
    /\ \A i \in 1..11 : RawListing(i)
    /\ fetched[1].anchors[11] = PhdListing
    /\ Len(result[1]) = 9

----------------------------------------------------------------------------
(* Claims about the fields of the postings *)

Sources == {"university_website", "linkedin", "other"}

NewRows == Range(job_opportunities') \ Range(job_opportunities)

\* C23: every candidate carries the date of the day it was extracted and the
\* source of the strategy that produced it (linkedin for the LinkedIn search,
\* university_website for both university scrapers), so every stored posting
\* has a source of the enumeration.
C23_DateAndSource ==
    /\ [](\A o \in Range(all_opportunities) :
              o.posted_date = today /\ o.source = "university_website")
    /\ [](\A r \in Range(job_opportunities) :
              /\ r.source \in Sources
              /\ r.posted_date \in 0..today
              /\ r.source = "linkedin" <=> r.institution = "KU Leuven")
    /\ [][\A r \in NewRows :
              /\ r.posted_date = today
              /\ pc = "scrape_linkedin_jobs" => r.source = "linkedin"
              /\ pc = "save_opportunities" => r.source = "university_website"]_vars

\* on the second day the store holds a LinkedIn posting and a university
\* posting of that day
C23_Witness ==
    /\ today = 1
    /\ \E r \in Range(job_opportunities) : r.source = "linkedin" /\ r.posted_date = 1
    /\ \E r \in Range(job_opportunities) :
          r.source = "university_website" /\ r.posted_date = 1

----------------------------------------------------------------------------
(* Claims about the requirements of a posting *)

DegreeRequirement == "PhD or equivalent degree"

ExperienceRequirement == "Relevant research experience"

\* C24: the requirements of a posting depend on its description only: the
\* degree requirement is listed iff the lowercased description contains phd
\* or doctorate, the experience requirement iff it contains experience, the
\* degree first; the list is empty when neither occurs or the detail page
\* could not be read.
C24_RequirementsFromDescription ==
    Len(result) = 1 =>
        \A k \in 1..Len(result[1]) :
            LET o == result[1][k]
                d == lower(Chars[o.description])
                degree == Contains(d, Chars["phd"]) \/ Contains(d, Chars["doctorate"])
                experience == Contains(d, Chars["experience"])
            IN  /\ o.requirements =
                       CASE degree /\ experience -> <<DegreeRequirement, ExperienceRequirement>>
                         [] degree /\ ~experience -> <<DegreeRequirement>>
                         [] ~degree /\ experience -> <<ExperienceRequirement>>
                         [] OTHER -> <<>>
                /\ (~fetched[1].readable \/ fetched[1].href = NULL) =>
                       o.description = "" /\ o.requirements = <<>>
                /\ (fetched[1].readable /\ fetched[1].href # NULL) =>
                       o.description = fetched[1].description

\* a posting whose description speaks of a Doctorate and of experience lists
\* both requirements, the degree first
C24_Witness ==
    /\ Len(result) = 1 /\ Len(result[1]) = 1
    /\ result[1][1].description = "Doctorate and experience"
    /\ result[1][1].requirements = <<DegreeRequirement, ExperienceRequirement>>

----------------------------------------------------------------------------
(* Claims about the breakdown by institution *)

Stored(institution) ==
    Cardinality({i \in 1..Len(job_opportunities) :
                    job_opportunities[i].institution = institution})

Listed == {result[1][k].institution : k \in 1..Len(result[1])}

\* C25: the breakdown lists at most 10 institutions, each once and with the
\* number of its postings, in non-increasing order of that number; all
\* institutions are listed when there are no more than 10, and no institution
\* left out has more postings than a listed one.
C25_TopTenInstitutions ==
    Len(result) = 1 =>
        /\ Len(result[1]) <= 10
        /\ \A k \in 1..Len(result[1]) :
              /\ result[1][k].count = Stored(result[1][k].institution)
              /\ result[1][k].count > 0
              /\ \A j \in 1..Len(result[1]) :
                    /\ j < k => result[1][j].count >= result[1][k].count
                    /\ j # k => result[1][j].institution # result[1][k].institution
        /\ \A i \in 1..Len(job_opportunities) :
              \/ job_opportunities[i].institution \in Listed
              \/ /\ Len(result[1]) = 10
                 /\ \A k \in 1..10 :
                       Stored(job_opportunities[i].institution) <= result[1][k].count

\* of 11 institutions the last in the alphabet has two postings and leads the
\* breakdown, an institution with one posting is left out
C25_Witness ==
    /\ Len(result) = 1 /\ Len(result[1]) = 10
    /\ result[1][1] = [institution |-> Institutions[11], count |-> 2]
    /\ result[1][10].count = 1
    /\ \E i \in 1..Len(job_opportunities) : job_opportunities[i].institution \notin Listed

----------------------------------------------------------------------------
(* C26: the aggregators are read-only and repeatable *)

\* this step is a call of the aggregator
Asks(op) == Replies'[op] # <<>> /\ Replies'[op] # Replies[op]

\* the same call was answered before, with no write since
AskedBefore(op) == Replies[op] # <<>> /\ Replies[op][1].args = Replies'[op][1].args

\* the counts of a reply: the numbers of the summary, the length of a list
CountsOf(op, reply) ==
    IF op = "get_data_summary"
    THEN [total_jobs |-> reply.total_jobs,
          recent_jobs |-> reply.recent_jobs,
          by_source |-> reply.jobs_by_source,
          by_institution |-> [i \in 1..Len(reply.jobs_by_institution) |->
                                 reply.jobs_by_institution[i].count],
          websites |-> reply.website_stats]
    ELSE [rows |-> Len(reply)]

\* the counts that do not depend on the date of the call
DatelessCountsOf(op, reply) ==
    IF op = "get_data_summary"
    THEN [CountsOf(op, reply) EXCEPT !.recent_jobs = 0]
    ELSE CountsOf(op, reply)

\* C26 as stated: a call of an aggregator leaves job_opportunities and
\* website_monitoring as they were, and it returns the counts the same call
\* returned before when nothing was written in between.
C26_SameCountsWithoutWrite ==
    [][\A op \in Aggregators :
          Asks(op) =>
              /\ job_opportunities' = job_opportunities
              /\ website_monitoring' = website_monitoring
              /\ AskedBefore(op) =>
                     CountsOf(op, Replies'[op][1].reply) = CountsOf(op, Replies[op][1].reply)]_vars

\* C26 amended: a call of an aggregator leaves job_opportunities and
\* website_monitoring as they were; when nothing was written in between it
\* returns the counts the same call returned before, except that recent_jobs
\* is the same only when both calls are made on the same date.
C26_SameCountsWithoutWriteOnOneDate ==
    [][\A op \in Aggregators :
          Asks(op) =>
              /\ job_opportunities' = job_opportunities
              /\ website_monitoring' = website_monitoring
              /\ AskedBefore(op) =>
                     /\ DatelessCountsOf(op, Replies'[op][1].reply)
                            = DatelessCountsOf(op, Replies[op][1].reply)
                     /\ Replies'[op][1].today = Replies[op][1].today =>
                            CountsOf(op, Replies'[op][1].reply)
                                = CountsOf(op, Replies[op][1].reply)]_vars

\* every aggregator was asked a second time of a store that holds postings
\* and health records
C26_Witness ==
    /\ job_opportunities # <<>>
    /\ website_monitoring # <<>>
    /\ \A op \in Aggregators : Replies[op] # <<>> /\ Replies[op][1].again

----------------------------------------------------------------------------
(* C27: who the update cycle notifies about *)

\* the lists the notifiers were called with in the cycle that ends
Sent == {result'[1].email[i] : i \in 1..Len(result'[1].email)}
            \cup {result'[1].webhook[i] : i \in 1..Len(result'[1].webhook)}

\* C27: a notifier is called only when the scan left more postings in the
\* store than it found there, and the postings it is called with are exactly
\* those whose url was not in the store before the scan.
C27_NotifiesExactlyNewPostings ==
    [][\A list \in Sent :
          /\ Len(job_opportunities') > Len(job_opportunities)
          /\ {list[i].url : i \in 1..Len(list)}
                 = Urls(job_opportunities') \ Urls(job_opportunities)]_vars

----------------------------------------------------------------------------
(* C28: the overall status of check_system_health *)

\* C28: the overall status is healthy exactly when the three checks are
\* healthy, and it is unhealthy whenever one of the checks is unhealthy.
C28_OverallAsSevereAsWorstCheck ==
    result # <<>> =>
        LET health == result[1]
        IN  /\ health.overall = "healthy"
                   <=> \A c \in Checks : health.checks[c].status = "healthy"
            /\ (\E c \in Checks : health.checks[c].status = "unhealthy")
                   => health.overall = "unhealthy"

----------------------------------------------------------------------------
(* C29: the backups that are kept *)

\* the call that ends here made a backup
BackedUp == result' # <<>> /\ ~result'[1].raised

\* the files the cleanup of the call that ends here removed
Removed == {f \in backup_dir : f.timestamp # result'[1].backup_path /\ f \notin backup_dir'}

\* the file of the call that ends here is in the directory and is its newest
JustCreatedKept ==
    \E f \in backup_dir' :
        /\ f.timestamp = result'[1].backup_path
        /\ \A g \in backup_dir \cup (backup_dir' \ {f}) : g.ctime < f.ctime

\* nothing but the oldest files were removed, and none while fewer than
\* KeepCount were left
OldestRemoved ==
    /\ \A kept \in backup_dir', gone \in Removed : gone.ctime < kept.ctime
    /\ Removed # {} => Cardinality(backup_dir') = KeepCount

----------------------------------------------------------------------------
(* C30: the record of a monitored operation *)

\* the operation of the invocation that ends here, and what it did
Invoked == fetched'[1]

\* the invocation that ends here added exactly this record to the log
Logged(success, error_message) ==
    performance_logs' = Append(performance_logs,
                               [operation |-> Invoked.operation_name, success |-> success,
                                error_message |-> error_message])

\* the caller got what the operation returned or raised
PassedOn == result'[1] = Invoked.outcome

====
